---------------------------- MODULE Spec2Model ----------------------------
(***************************************************************************)
(* PRINS: guarded automata (NFA.py, DFA.py), the guard evaluator           *)
(* (automata_utils.py) and the stitching pipeline (PRINS.py).              *)
(*                                                                         *)
(* Representation.                                                         *)
(*  - A state identifier is a Python string of decimal numerals joined by  *)
(*    commas ("0", "4", "0,3").  It is modelled by the sequence of its     *)
(*    numeric fields (<<0>>, <<4>>, <<0, 3>>): str(i) is <<i>>, ','.join   *)
(*    is concatenation, split(',')[-1] is the last field, int() of a       *)
(*    single field is that field.  natsort orders such strings by their    *)
(*    fields, field by field, a proper prefix first.                       *)
(*  - A Python set is a set.  A Python dict is a sequence of entries in    *)
(*    insertion order with pairwise different keys: iteration order is     *)
(*    what nfa_guarded_transition and make_guarded_transition depend on.   *)
(*  - A word is <<tid, guard>>; the guard None is the string "None".       *)
(*  - The values of a log entry are the list the code gets from eval() of  *)
(*    the entry's 'values' string ("['1']" is <<"1">>); a value is a       *)
(*    string, modelled as a sequence of characters.  The guards are the    *)
(*    learner's comparisons of var0 with the string "1".                   *)
(***************************************************************************)
EXTENDS Naturals, Sequences, FiniteSets, TLC

\* ------------------------------------------------------------------ bounds
\* Number of states of an automaton enumerated as an input.
MaxStates == 2
\* Most transition keys of an automaton enumerated as an input.
MaxTransitions == 2
\* Longest trace (l_vector) handed to an acceptance check or to slice.
MaxTraceLen == 2
\* Largest state number of the slices the mutators start from and append.
MaxAtom == 2
\* Most executions (system-level logs) in a corpus.
MaxExecutions == 2
\* Longest system-level log of a corpus.
MaxLogLen == 2
\* Most mutator calls made on one NFA object.
MaxCalls == 3
\* Largest padding handed to rename_states.
MaxPadding == 2
MaxModels == 2
MaxDetStates == 3
MaxProjLen == 3
MaxMergeLimit == 3

VARIABLES
    chk_nfa,        \* acceptance: the NFA checked (NoModel when a DFA is)
    chk_dfa,        \* acceptance: the DFA checked (NoModel when an NFA is)
    chk_trace,      \* acceptance: the trace of the last check
    chk_done,       \* acceptance: "none", or the check made: "nfa" / "dfa"
    nfa_accepted,   \* what nfa_check_acceptance returned
    dfa_accepted    \* what dfa_check_acceptance returned

VARIABLES
    obj,            \* mutators: the NFA object the calls are made on
    obj_before,     \* mutators: obj as it was before the last call
    call,           \* mutators: the last call, its arguments and what it returned
    merge_call,     \* mutators: the last merge_states call, direct or made by append
    n_calls         \* mutators: calls made on obj so far

VARIABLES
    comp_model,     \* slicing: the component model M
    comp_cursor,    \* slicing: slice_starting_states[M]
    slice_call,     \* slicing: the last slice call, its arguments and what it returned
    slice_again     \* slicing: the same call made once more from the same cursor value

VARIABLES
    l_vectors,          \* pipeline: PRINS.l_vectors, one trace per execution
    inferred,           \* pipeline: component_models, component -> model
    appended_models,    \* pipeline: the per-execution models stitched so far
    m_sys,              \* pipeline: the system model
    phase,              \* pipeline: position in PRINS.run
    stitch_call,        \* pipeline: the last stitch call, its slices and final cursors
    workers,            \* pipeline: the worker pool of run and its futures
    checked,            \* pipeline: executions whose trace was checked against m_sys
    accepted            \* pipeline: executions whose trace m_sys accepted

VARIABLES
    det_nfa,        \* determinization: the NFA N before the call
    det_call,       \* determinization: the call made on a copy of N and what it returned
    det_check,      \* determinization: a trace checked against N and the returned DFA
    det_loop        \* determinization: a merge loop at the head of an iteration

VARIABLES
    proj_logs,      \* projection: PRINS.l_vectors, execution id -> trace
    proj_call       \* projection: the last call and what it returned

accVars == <<chk_nfa, chk_dfa, chk_trace, chk_done, nfa_accepted, dfa_accepted>>
opsVars == <<obj, obj_before, call, merge_call, n_calls>>
sliceVars == <<comp_model, comp_cursor, slice_call, slice_again>>
pipeVars == <<l_vectors, inferred, appended_models, m_sys, phase, stitch_call,
              workers, checked, accepted>>
detVars == <<det_nfa, det_call, det_check, det_loop>>
projVars == <<proj_logs, proj_call>>
vars == <<accVars, opsVars, sliceVars, pipeVars, detVars, projVars>>

\* ------------------------------------------------------- state identifiers
Atom(n) == <<n>>

RECURSIVE NameLess(_, _)
\* natsort's order on comma-joined numerals: field by field, prefix first.
NameLess(a, b) ==
    IF a = <<>> THEN b /= <<>>
    ELSE IF b = <<>> THEN FALSE
    ELSE IF a[1] /= b[1] THEN a[1] < b[1]
    ELSE NameLess(Tail(a), Tail(b))

RECURSIVE natsorted(_)
\* natsorted(S): the members of S in natural order, as a list.
natsorted(S) ==
    IF S = {} THEN <<>>
    ELSE LET m == CHOOSE x \in S : \A y \in S \ {x} : NameLess(x, y)
         IN  <<m>> \o natsorted(S \ {m})

RECURSIVE CommaJoin(_)
\* ','.join(names)
CommaJoin(names) ==
    IF names = <<>> THEN <<>> ELSE Head(names) \o CommaJoin(Tail(names))

\* ------------------------------------------------------------------ guards
None == "None"
GuardEq1 == "var0==\"1\""
GuardNe1 == "var0!=\"1\""

\* re.sub(r'\(|\)', '', v) followed by re.sub(r'\s+', '', v)
StripValue(v) == SelectSeq(v, LAMBDA ch : ch \notin {"(", ")", " "})

\* automata_utils.evaluate(guard, values)
evaluate(guard, values) ==
    IF guard = None THEN TRUE
    ELSE IF Len(values) = 0 THEN FALSE
    ELSE IF guard = GuardEq1 THEN StripValue(values[1]) = <<"1">>
    ELSE StripValue(values[1]) /= <<"1">>

\* ------------------------------------------------------------- dict helpers
\* Index of key (src, word) in the dict d, 0 when absent.
KeyIndex(d, src, word) ==
    IF \E i \in 1..Len(d) : d[i].src = src /\ d[i].word = word
    THEN CHOOSE i \in 1..Len(d) : d[i].src = src /\ d[i].word = word
    ELSE 0

\* d[(src, word)] = dst: overwrite in place, or insert at the end.
DictSet(d, src, word, dst) ==
    LET k == KeyIndex(d, src, word)
    IN  IF k = 0 THEN Append(d, [src |-> src, word |-> word, dst |-> dst])
        ELSE [d EXCEPT ![k].dst = dst]

\* d[(src, word)] = d[(src, word)].union(dst) if present, else d[(src, word)] = dst
DictUnion(d, src, word, dst) ==
    LET k == KeyIndex(d, src, word)
    IN  IF k = 0 THEN Append(d, [src |-> src, word |-> word, dst |-> dst])
        ELSE [d EXCEPT ![k].dst = d[k].dst \cup dst]

RECURSIVE DictUpdate(_, _)
\* {**d, **e}
DictUpdate(d, e) ==
    IF e = <<>> THEN d
    ELSE DictUpdate(DictSet(d, e[1].src, e[1].word, e[1].dst), Tail(e))

\* The dict as Python's == sees it: its items, order forgotten.
Items(d) == {d[i] : i \in 1..Len(d)}

\* ------------------------------------------------------------------- NFA
MkNFA(alphabet, states, initial_state, accepting_states, transitions) ==
    [alphabet |-> alphabet, states |-> states, initial_state |-> initial_state,
     accepting_states |-> accepting_states, transitions |-> transitions]

\* Python's None where a model is expected, and the idle value of a model variable.
NoModel == [alphabet |-> {}, states |-> {}, initial_state |-> <<>>,
            accepting_states |-> {}, transitions |-> <<>>]

RECURSIVE ReachableFrom(_, _)
\* The states of the NFA reachable from the set seen.
ReachableFrom(nfa, seen) ==
    LET more == seen \cup UNION {nfa.transitions[i].dst :
                                   i \in {j \in 1..Len(nfa.transitions) :
                                              nfa.transitions[j].src \in seen}}
    IN  IF more = seen THEN seen ELSE ReachableFrom(nfa, more)

\* Every state of the NFA is reachable from its initial state.
AllReachable(nfa) == ReachableFrom(nfa, {nfa.initial_state}) = nfa.states

\* Python's == on every field of two automata (check_model_equivalence).
SameNFA(m, n) ==
    /\ m.alphabet = n.alphabet
    /\ m.states = n.states
    /\ m.initial_state = n.initial_state
    /\ m.accepting_states = n.accepting_states
    /\ Items(m.transitions) = Items(n.transitions)

\* nfa_guarded_transition, lines 81-82: key i leaves source_state with the
\* entry's tid, and its guard is None, ignored or true.
KeyMatches(d, i, source_state, log_entry, ignore_guard) ==
    /\ d[i].src = source_state
    /\ log_entry.tid = d[i].word[1]
    /\ \/ d[i].word[2] = None
       \/ ignore_guard
       \/ evaluate(d[i].word[2], log_entry.values)

\* The keys of d, by index, that match.
MatchingKeys(d, source_state, log_entry, ignore_guard) ==
    {i \in 1..Len(d) : KeyMatches(d, i, source_state, log_entry, ignore_guard)}

\* The first of the indices in hits, in iteration order.
FirstIndex(hits) == CHOOSE i \in hits : \A j \in hits : i <= j

\* nfa_guarded_transition, lines 83-84: the value at the first matching key.
FirstMatch(d, hits) ==
    IF hits = {} THEN [found |-> FALSE, dst |-> {}, word |-> <<None, None>>]
    ELSE [found |-> TRUE, dst |-> d[FirstIndex(hits)].dst, word |-> d[FirstIndex(hits)].word]

\* NFA.nfa_guarded_transition: the first key, in iteration order, leaving
\* source_state with the entry's tid whose guard is None, ignored or true.
nfa_guarded_transition(nfa, source_state, log_entry, ignore_guard) ==
    FirstMatch(nfa.transitions,
               MatchingKeys(nfa.transitions, source_state, log_entry, ignore_guard))

\* find_non_deterministic_states, lines 403-409: the images the loop stops at.
StopKeys(d) == {i \in 1..Len(d) : Cardinality(d[i].dst) > 1 \/ d[i].dst = {}}

\* find_non_deterministic_states, lines 405-411: what the first of them yields.
FirstStop(d, stops) ==
    IF stops = {} THEN [kind |-> "none", states |-> {}]
    ELSE IF d[FirstIndex(stops)].dst = {} THEN [kind |-> "exit", states |-> {}]
    ELSE [kind |-> "states", states |-> d[FirstIndex(stops)].dst]

\* NFA.find_non_deterministic_states() with no exclusions: "none", the first
\* image with more than one state, or "exit" on an empty image met before it.
find_non_deterministic_states(nfa) == FirstStop(nfa.transitions, StopKeys(nfa.transitions))

\* find_non_deterministic_states, lines 398-402: the states whose merge count
\* has reached the limit. An absent (None) or empty merge_count_per_state is
\* the empty function, an absent or zero per_state_merge_limit is 0: the
\* condition of line 399 is false for each of them.
ExcludingDstStates(merge_count_per_state, per_state_merge_limit) ==
    IF DOMAIN merge_count_per_state = {} \/ per_state_merge_limit = 0 THEN {}
    ELSE {state \in DOMAIN merge_count_per_state :
             merge_count_per_state[state] >= per_state_merge_limit}

\* find_non_deterministic_states, lines 404-409: the keys the loop stops at.
StopKeysExcluding(d, excluding_dst_states) ==
    {i \in 1..Len(d) : Cardinality(d[i].dst \ excluding_dst_states) > 1 \/ d[i].dst = {}}

\* find_non_deterministic_states, lines 404-411: what the first of them yields.
FirstStopExcluding(d, stops, excluding_dst_states) ==
    IF stops = {} THEN [kind |-> "none", states |-> {}]
    ELSE IF Cardinality(d[FirstIndex(stops)].dst \ excluding_dst_states) > 1
    THEN [kind |-> "states", states |-> d[FirstIndex(stops)].dst \ excluding_dst_states]
    ELSE [kind |-> "exit", states |-> {}]

\* NFA.find_non_deterministic_states(merge_count_per_state, per_state_merge_limit)
find_non_deterministic_states_excluding(nfa, merge_count_per_state, per_state_merge_limit) ==
    FirstStopExcluding(nfa.transitions,
        StopKeysExcluding(nfa.transitions,
            ExcludingDstStates(merge_count_per_state, per_state_merge_limit)),
        ExcludingDstStates(merge_count_per_state, per_state_merge_limit))

RECURSIVE RedirectTransitions(_, _, _, _)
\* merge_states, lines 216-230: rebuild the dict with members of ms replaced
\* by s_m; keys that collapse have their images unioned.
RedirectTransitions(d, ms, s_m, new_transitions) ==
    IF d = <<>> THEN new_transitions
    ELSE LET src == IF d[1].src \in ms THEN s_m ELSE d[1].src
             dst == IF ms \cap d[1].dst /= {} THEN (d[1].dst \ ms) \cup {s_m}
                    ELSE d[1].dst
         IN  RedirectTransitions(Tail(d), ms, s_m,
                                 DictUnion(new_transitions, src, d[1].word, dst))

\* merge_states, lines 200-233: the members of ms replaced by s_m everywhere.
MergeInto(nfa, ms, s_m) ==
    [raised |-> FALSE,
     s_m |-> s_m,
     nfa |-> [alphabet |-> nfa.alphabet,
              states |-> (nfa.states \ ms) \cup {s_m},
              initial_state |-> IF nfa.initial_state \in ms THEN s_m
                                ELSE nfa.initial_state,
              accepting_states |->
                  IF nfa.accepting_states \cap ms /= {}
                  THEN (nfa.accepting_states \ ms) \cup {s_m}
                  ELSE nfa.accepting_states,
              transitions |-> RedirectTransitions(nfa.transitions, ms, s_m, <<>>)]]

\* NFA.merge_states(merge_states): raised is an AssertionError.
merge_states(nfa, ms) ==
    IF ~(Cardinality(ms) > 1 /\ ms \subseteq nfa.states)
    THEN [raised |-> TRUE, nfa |-> nfa, s_m |-> <<>>]
    ELSE MergeInto(nfa, ms, CommaJoin(natsorted(ms)))

\* The position of s in states_list, from 0.
IndexOf(states_list, s) == (CHOOSE i \in 1..Len(states_list) : states_list[i] = s) - 1

\* A renaming that numbers the states from 0 whatever the padding.
RenameMap_without_padding(states_list, padding) ==
    [s \in {states_list[i] : i \in 1..Len(states_list)} |->
        Atom(IndexOf(states_list, s))]

\* rename_states, lines 247-249: old name -> str(i + padding), i its position
\* in states_list.
RenameMap(states_list, padding) ==
    [s \in {states_list[i] : i \in 1..Len(states_list)} |->
        Atom(IndexOf(states_list, s) + padding)]

RECURSIVE RenameTransitions(_, _, _)
\* rename_states, lines 262-267.
RenameTransitions(d, rename_map, new_transitions) ==
    IF d = <<>> THEN new_transitions
    ELSE RenameTransitions(Tail(d), rename_map,
            IF d[1].dst = {} THEN new_transitions
            ELSE DictUnion(new_transitions, rename_map[d[1].src], d[1].word,
                           {rename_map[x] : x \in d[1].dst}))

\* rename_states, lines 251-270: every name replaced through rename_map.
RenameBy(nfa, rename_map) ==
    [alphabet |-> nfa.alphabet,
     states |-> {rename_map[s] : s \in nfa.states},
     initial_state |-> rename_map[nfa.initial_state],
     accepting_states |-> {rename_map[s] : s \in nfa.accepting_states},
     transitions |-> RenameTransitions(nfa.transitions, rename_map, <<>>)]

\* NFA.rename_states(padding), on an automaton whose q0, F and transitions
\* mention only members of states (anything else is a KeyError).
rename_states(nfa, padding) == RenameBy(nfa, RenameMap(natsorted(nfa.states), padding))

\* The last field of a state name: name.split(',')[-1]
LastField(name) == name[Len(name)]

\* Last field of the natural maximum of the states: natsorted(...)[-1].split(',')[-1]
MaxStateNumber(states_list) == LastField(states_list[Len(states_list)])

\* check_and_remove_redundant_states, line 297: the assertion on the renamed nfa.
CheckDisjoint(self, renamed) ==
    [raised |-> self.states \cap renamed.states /= {}, nfa |-> renamed]

\* NFA.check_and_remove_redundant_states(nfa): nfa as the call leaves it.
check_and_remove_redundant_states(self, nfa) ==
    CheckDisjoint(self,
        IF self.states \cap nfa.states /= {}
        THEN rename_states(nfa, MaxStateNumber(natsorted(self.states)) + 1)
        ELSE nfa)

\* append, lines 169-178: self after the componentwise union with other.
JoinModels(self, other) ==
    [alphabet |-> self.alphabet \cup other.alphabet,
     states |-> self.states \cup other.states,
     initial_state |-> self.initial_state,
     accepting_states |-> other.accepting_states,
     transitions |-> DictUpdate(self.transitions, other.transitions)]

\* append, lines 181-184: what the merge_states call leaves.  nfa's accepting
\* set is the very set object self then mutates.
AppendMerged(joined, other, ms, merged) ==
    IF merged.raised
    THEN [raised |-> TRUE, self |-> joined, nfa |-> other, joined |-> joined, ms |-> ms]
    ELSE [raised |-> FALSE,
          self |-> merged.nfa,
          nfa |-> [other EXCEPT !.accepting_states = merged.nfa.accepting_states],
          joined |-> joined,
          ms |-> ms]

\* append, line 181: merge s_x with the initial state of other.
AppendJoined(joined, other, ms) ==
    AppendMerged(joined, other, ms, merge_states(joined, ms))

\* append, lines 160-181: after check_and_remove_redundant_states; s_x was
\* popped from self's accepting states (line 160).
AppendChecked(self, s_x, chk) ==
    IF chk.raised
    THEN [raised |-> TRUE, self |-> [self EXCEPT !.accepting_states = {}],
          nfa |-> chk.nfa, joined |-> NoModel, ms |-> {}]
    ELSE AppendJoined(JoinModels(self, chk.nfa), chk.nfa, {s_x, chk.nfa.initial_state})

\* NFA.append(nfa): self and nfa as the call leaves them; joined and ms are
\* the automaton its merge_states call was made on and the set it was handed.
append(self, nfa) ==
    IF Cardinality(self.accepting_states) /= 1
    THEN [raised |-> TRUE, self |-> self, nfa |-> nfa, joined |-> NoModel, ms |-> {}]
    ELSE AppendChecked(self, CHOOSE s \in self.accepting_states : TRUE,
                       check_and_remove_redundant_states(self, nfa))

\* The transition found, with the ignore_guard values of the calls of
\* nfa_guarded_transition made for the entry.
WithTries(t, tries) == [found |-> t.found, dst |-> t.dst, word |-> t.word, tries |-> tries]

\* slice, lines 117-119: the second try with ignore_guard=True.
SliceRetry_on_every_entry(self, curr_state, e, first) ==
    WithTries(nfa_guarded_transition(self, curr_state, e, TRUE), <<FALSE, TRUE>>)

SliceRetry(self, curr_state, e, first) ==
    IF first.found THEN WithTries(first, <<FALSE>>)
    ELSE WithTries(nfa_guarded_transition(self, curr_state, e, TRUE), <<FALSE, TRUE>>)

\* slice, lines 115-128: the transition taken on entry e.
SliceStep(self, curr_state, e) ==
    SliceRetry(self, curr_state, e, nfa_guarded_transition(self, curr_state, e, FALSE))

\* slice, lines 133-138: next_state and word added to sliced_nfa.
SliceAdd(sliced_nfa, curr_state, word, next_state) ==
    [sliced_nfa EXCEPT
        !.states = @ \cup {next_state},
        !.alphabet = @ \cup {word},
        !.transitions = DictUnion(@, curr_state, word, {next_state})]

\* The calls of nfa_guarded_transition made for entry i in curr_state.
SliceCalls(calls, i, curr_state, t) ==
    Append(calls, [entry |-> i, curr_state |-> curr_state, tries |-> t.tries,
                   found |-> t.found])

RECURSIVE SliceLoop(_, _, _, _, _, _)
RECURSIVE SliceAdvance(_, _, _, _, _, _, _)
\* slice, lines 121-139: entry i taken by t.  raised: the ValueError of line
\* 125, the AssertionError of line 130 or the IndexError of line 131.
SliceAdvance(self, l_vector, i, curr_state, sliced_nfa, calls, t) ==
    IF ~t.found \/ Cardinality(t.dst) /= 1
    THEN [raised |-> TRUE, curr_state |-> curr_state, sliced_nfa |-> sliced_nfa,
          calls |-> SliceCalls(calls, i, curr_state, t)]
    ELSE SliceLoop(self, l_vector, i + 1, natsorted(t.dst)[1],
                   SliceAdd(sliced_nfa, curr_state, t.word, natsorted(t.dst)[1]),
                   SliceCalls(calls, i, curr_state, t))

\* NFA.slice(l_vector, slice_starting_states), the loop of lines 112-139 from
\* entry i on.
SliceLoop(self, l_vector, i, curr_state, sliced_nfa, calls) ==
    IF i > Len(l_vector)
    THEN [raised |-> FALSE, curr_state |-> curr_state, sliced_nfa |-> sliced_nfa,
          calls |-> calls]
    ELSE SliceAdvance(self, l_vector, i, curr_state, sliced_nfa, calls,
                      SliceStep(self, curr_state, l_vector[i]))

\* A slice that records where it stopped in the model itself: self's initial
\* state is moved to the last visited state.
slice_moving_initial_state(self, cursor, non_deterministic, walk) ==
    IF non_deterministic.kind /= "none" \/ walk.raised
    THEN [raised |-> TRUE, self |-> self, cursor |-> cursor,
          sliced |-> MkNFA({}, {cursor}, cursor, {}, <<>>),
          calls |-> IF non_deterministic.kind /= "none" THEN <<>> ELSE walk.calls]
    ELSE [raised |-> FALSE,
          self |-> [self EXCEPT !.initial_state = walk.curr_state],
          cursor |-> walk.curr_state,
          sliced |-> [walk.sliced_nfa EXCEPT !.accepting_states = {walk.curr_state}],
          calls |-> walk.calls]

\* A slice that marks every visited state accepting.
slice_accepting_visited_states(self, cursor, non_deterministic, walk) ==
    IF non_deterministic.kind /= "none" \/ walk.raised
    THEN [raised |-> TRUE, self |-> self, cursor |-> cursor,
          sliced |-> MkNFA({}, {cursor}, cursor, {}, <<>>),
          calls |-> IF non_deterministic.kind /= "none" THEN <<>> ELSE walk.calls]
    ELSE [raised |-> FALSE, self |-> self, cursor |-> walk.curr_state,
          sliced |-> [walk.sliced_nfa EXCEPT !.accepting_states = walk.sliced_nfa.states],
          calls |-> walk.calls]

\* slice, lines 100 and 141-143: self, the cursor slice_starting_states[self]
\* and the slice returned once the walk is done.  raised also covers the
\* determinism assertion of line 100.
SliceResult(self, cursor, non_deterministic, walk) ==
    IF non_deterministic.kind /= "none" \/ walk.raised
    THEN [raised |-> TRUE, self |-> self, cursor |-> cursor,
          sliced |-> MkNFA({}, {cursor}, cursor, {}, <<>>),
          calls |-> IF non_deterministic.kind /= "none" THEN <<>> ELSE walk.calls]
    ELSE [raised |-> FALSE, self |-> self, cursor |-> walk.curr_state,
          sliced |-> [walk.sliced_nfa EXCEPT !.accepting_states = {walk.curr_state}],
          calls |-> walk.calls]

\* NFA.slice: self as the call leaves it, the slice returned, and the cursor
\* slice_starting_states[self] as the call leaves it.
slice(self, l_vector, cursor) ==
    SliceResult(self, cursor, find_non_deterministic_states(self),
                SliceLoop(self, l_vector, 1, cursor, MkNFA({}, {cursor}, cursor, {}, <<>>),
                          <<>>))

\* nfa_check_acceptance, lines 374-377: one entry applied to the frontier.
NextLevel(nfa, current_level, e) ==
    UNION {nfa_guarded_transition(nfa, src_state, e, FALSE).dst : src_state \in current_level}

RECURSIVE AcceptLoop(_, _, _, _)
RECURSIVE AcceptNext(_, _, _, _)
\* nfa_check_acceptance, lines 379-383: stop on an empty frontier.
AcceptNext(nfa, l_vector, i, next_level) ==
    IF Cardinality(next_level) < 1 THEN FALSE
    ELSE AcceptLoop(nfa, l_vector, i + 1, next_level)

\* nfa_check_acceptance, lines 371-386, from entry i on.
AcceptLoop(nfa, l_vector, i, current_level) ==
    IF i > Len(l_vector) THEN current_level \cap nfa.accepting_states /= {}
    ELSE AcceptNext(nfa, l_vector, i, NextLevel(nfa, current_level, l_vector[i]))

\* NFA.nfa_check_acceptance(l_vector)
nfa_check_acceptance(nfa, l_vector) ==
    AcceptLoop(nfa, l_vector, 1, {nfa.initial_state})

RECURSIVE UnionRename(_, _, _)
RECURSIVE UnionRenamed(_, _, _, _)
\* union_nfa_models, lines 321-322: the padding advanced by the model's states.
UnionRenamed(models, k, starting_state_index, model) ==
    <<model>> \o UnionRename(models, k + 1, starting_state_index + Cardinality(model.states))

\* union_nfa_models, lines 318-321: each model renamed in place.
UnionRename(models, k, starting_state_index) ==
    IF k > Len(models) THEN <<>>
    ELSE UnionRenamed(models, k, starting_state_index,
                      rename_states(models[k], starting_state_index))

\* union_nfa_models, lines 333-348: the componentwise union; initial_state
\* stays None (the empty name) until the merge.
RECURSIVE UnionLoop(_, _, _)
UnionLoop(models, k, resulting_model) ==
    IF k > Len(models) THEN resulting_model
    ELSE UnionLoop(models, k + 1,
            [alphabet |-> resulting_model.alphabet \cup models[k].alphabet,
             states |-> resulting_model.states \cup models[k].states,
             initial_state |-> resulting_model.initial_state,
             accepting_states |->
                 resulting_model.accepting_states \cup models[k].accepting_states,
             transitions |->
                 DictUpdate(resulting_model.transitions, models[k].transitions)])

\* union_nfa_models, lines 352-359: the merged initial state made the initial
\* state; raised is the AssertionError of merge_states.
UnionMerged(models, merged) ==
    [raised |-> merged.raised,
     models |-> models,
     nfa |-> [merged.nfa EXCEPT !.initial_state = merged.s_m]]

\* A union that keeps the first model's initial state and merges nothing.
UnionOf_without_merge(models) ==
    [raised |-> FALSE,
     models |-> models,
     nfa |-> [UnionLoop(models, 1, MkNFA({}, {}, <<>>, {}, <<>>))
                 EXCEPT !.initial_state = models[1].initial_state]]

\* union_nfa_models, lines 324-352, on the renamed models.
UnionOf(models) ==
    UnionMerged(models,
        merge_states(UnionLoop(models, 1, MkNFA({}, {}, <<>>, {}, <<>>)),
                     {models[k].initial_state : k \in 1..Len(models)}))

\* NFA.union_nfa_models(models): the model returned and the models as the call
\* leaves them.
union_nfa_models(models) == UnionOf(UnionRename(models, 1, 0))

\* ------------------------------------------------------------------ PRINS
RECURSIVE PartitionLoop(_, _, _, _)
\* partition_log_by_component, lines 245-250: the entries from number i on.
PartitionLoop_cutting_every_entry(l_vector, i, component_l_vector, partitioned_log) ==
    IF i > Len(l_vector) THEN partitioned_log
    ELSE PartitionLoop(l_vector, i + 1, <<>>,
             Append(partitioned_log,
                    [component |-> l_vector[i].component,
                     l_vector |-> Append(component_l_vector, l_vector[i])]))

PartitionLoop(l_vector, i, component_l_vector, partitioned_log) ==
    IF i > Len(l_vector) THEN partitioned_log
    ELSE LET grown == Append(component_l_vector, l_vector[i])
         IN  IF i = Len(l_vector) \/ l_vector[i + 1].component /= l_vector[i].component
             THEN PartitionLoop(l_vector, i + 1, <<>>,
                      Append(partitioned_log,
                             [component |-> l_vector[i].component, l_vector |-> grown]))
             ELSE PartitionLoop(l_vector, i + 1, grown, partitioned_log)

\* PRINS.partition_log_by_component(l_vector): maximal runs of one component.
partition_log_by_component(l_vector) == PartitionLoop(l_vector, 1, <<>>, <<>>)

\* project, lines 227-230: the entry appended to the component's sub-log of
\* the execution, or made its first entry.
ProjectEntry_overwriting(component_logs, log_id, log_entry) ==
    [component_logs EXCEPT ![log_entry.component] =
        [x \in (DOMAIN @) \cup {log_id} |-> IF x = log_id THEN <<log_entry>> ELSE @[x]]]

ProjectEntry(component_logs, log_id, log_entry) ==
    [component_logs EXCEPT ![log_entry.component] =
        IF log_id \in DOMAIN @
        THEN [@ EXCEPT ![log_id] = Append(@, log_entry)]
        ELSE [x \in (DOMAIN @) \cup {log_id} |-> IF x = log_id THEN <<log_entry>> ELSE @[x]]]

RECURSIVE ProjectLoop(_, _, _, _)
\* project, lines 225-230: the entries from number i of execution log_id on,
\* then the executions after it.
ProjectLoop(logs, log_id, i, component_logs) ==
    IF log_id > Len(logs) THEN component_logs
    ELSE IF i > Len(logs[log_id])
    THEN ProjectLoop(logs, log_id + 1, 1, component_logs)
    ELSE ProjectLoop(logs, log_id, i + 1,
                     ProjectEntry(component_logs, log_id, logs[log_id][i]))

\* PRINS.__init__, lines 61-65: the components named in the corpus.
ComponentsOf(logs) ==
    UNION {{logs[x][i].component : i \in 1..Len(logs[x])} : x \in DOMAIN logs}

\* PRINS.project(): component -> (execution id -> sub-log)
project(components, logs) ==
    ProjectLoop(logs, 1, 1, [c \in components |-> <<>>])

RECURSIVE StitchLoop(_, _, _, _, _, _)
RECURSIVE StitchSliced(_, _, _, _, _, _, _)
RECURSIVE StitchAppended(_, _, _, _, _, _, _)
\* stitch, lines 196-204, from partition k on: slice the component's model
\* from its cursor and append the slice; model_appended is NoModel for None.
\* slices lists the slice calls made so far: component, sub-trace, the cursor
\* the call found and the cursor it left.
StitchLoop(partitioned_log, k, component_models, slice_starting_states, model_appended, slices) ==
    IF k > Len(partitioned_log)
    THEN [raised |-> FALSE, model_appended |-> model_appended, slices |-> slices,
          slice_starting_states |-> slice_starting_states]
    ELSE StitchSliced(partitioned_log, k, component_models, slice_starting_states,
             model_appended, slices,
             slice(component_models[partitioned_log[k].component],
                   partitioned_log[k].l_vector,
                   slice_starting_states[partitioned_log[k].component]))

\* A stitch that leaves the cursor of the sliced component where it was.
StitchSliced_keeping_cursor(partitioned_log, k, component_models, slice_starting_states, model_appended, slices, r) ==
    IF r.raised
    THEN [raised |-> TRUE, model_appended |-> model_appended, slices |-> slices,
          slice_starting_states |-> slice_starting_states]
    ELSE StitchAppended(partitioned_log, k, component_models,
             slice_starting_states,
             model_appended,
             Append(slices, [component |-> partitioned_log[k].component,
                             l_vector |-> partitioned_log[k].l_vector,
                             cursor |-> slice_starting_states[partitioned_log[k].component],
                             cursor_after |-> slice_starting_states[partitioned_log[k].component]]),
             IF model_appended = NoModel
             THEN [raised |-> FALSE, self |-> r.sliced]
             ELSE append(model_appended, r.sliced))

\* stitch, lines 198-204: the slice r, which has moved the cursor of its
\* component (NFA.py 142), copied or appended.
StitchSliced(partitioned_log, k, component_models, slice_starting_states, model_appended, slices, r) ==
    IF r.raised
    THEN [raised |-> TRUE, model_appended |-> model_appended, slices |-> slices,
          slice_starting_states |-> slice_starting_states]
    ELSE StitchAppended(partitioned_log, k, component_models,
             [slice_starting_states EXCEPT ![partitioned_log[k].component] = r.cursor],
             model_appended,
             Append(slices, [component |-> partitioned_log[k].component,
                             l_vector |-> partitioned_log[k].l_vector,
                             cursor |-> slice_starting_states[partitioned_log[k].component],
                             cursor_after |-> r.cursor]),
             IF model_appended = NoModel
             THEN [raised |-> FALSE, self |-> r.sliced]
             ELSE append(model_appended, r.sliced))

\* stitch, lines 196-204: on to the next partition with the grown model.
StitchAppended(partitioned_log, k, component_models, slice_starting_states, model_appended, slices, grown) ==
    IF grown.raised
    THEN [raised |-> TRUE, model_appended |-> model_appended, slices |-> slices,
          slice_starting_states |-> slice_starting_states]
    ELSE StitchLoop(partitioned_log, k + 1, component_models, slice_starting_states,
                    grown.self, slices)

\* PRINS.stitch(log_id, l_vector, component_models): every cursor starts at
\* its model's initial state.
stitch(l_vector, component_models) ==
    StitchLoop(partition_log_by_component(l_vector), 1, component_models,
               [c \in DOMAIN component_models |-> component_models[c].initial_state],
               NoModel, <<>>)

\* ------------------------------------------------------------ mint_helper
END_MARKER == "__END__"

\* remove_end_marker, lines 180-188: the keys whose tid is the end marker.
EndMarkerKeys(d) == {i \in 1..Len(d) : d[i].word[1] = END_MARKER}

\* remove_end_marker, lines 183-186: the targets of the end-marker transitions.
EndStates(d) == UNION {d[i].dst : i \in EndMarkerKeys(d)}

\* Accepting only the sources all of whose transitions carry the end marker.
EndMarkerSources_with_no_other_edge(d) ==
    {d[i].src : i \in EndMarkerKeys(d)} \
        {d[i].src : i \in (1..Len(d)) \ EndMarkerKeys(d)}

\* remove_end_marker, lines 182-183: the sources of the end-marker transitions.
EndMarkerSources(d) == {d[i].src : i \in EndMarkerKeys(d)}

\* remove_end_marker, lines 191-198: some assert fails.
EndMarkerAsserts(d) ==
    \E i \in 1..Len(d) :
        \/ d[i].src \in EndStates(d)
        \/ d[i].dst \cap EndStates(d) /= {} /\ d[i].word[1] /= END_MARKER

\* remove_end_marker(deterministic_ext_nfa): raised is the AssertionError.
remove_end_marker(deterministic_ext_nfa) ==
    [raised |-> EndMarkerAsserts(deterministic_ext_nfa.transitions),
     new_ext_nfa |->
        MkNFA({deterministic_ext_nfa.transitions[i].word :
                  i \in (1..Len(deterministic_ext_nfa.transitions))
                            \ EndMarkerKeys(deterministic_ext_nfa.transitions)},
              {deterministic_ext_nfa.transitions[i].src :
                  i \in 1..Len(deterministic_ext_nfa.transitions)}
                \cup UNION {deterministic_ext_nfa.transitions[i].dst :
                               i \in (1..Len(deterministic_ext_nfa.transitions))
                                         \ EndMarkerKeys(deterministic_ext_nfa.transitions)},
              deterministic_ext_nfa.initial_state,
              EndMarkerSources(deterministic_ext_nfa.transitions),
              SelectSeq(deterministic_ext_nfa.transitions,
                        LAMBDA x : x.word[1] /= END_MARKER))]

\* ------------------------------------------------------------------- DFA
\* A DFA's transitions map a key to one state: entries [src, word, dst], dst a state.

\* make_guarded_transition, lines 90-92, without the test log_entry['tid'] == tid.
DfaMatchingKeys_any_tid(dfa, source_state, log_entry, ignore_guard) ==
    {i \in 1..Len(dfa.transitions) :
        /\ dfa.transitions[i].src = source_state
        /\ \/ dfa.transitions[i].word[2] = None
           \/ ignore_guard
           \/ evaluate(dfa.transitions[i].word[2], log_entry.values)}

\* make_guarded_transition, lines 90-92: the keys of the DFA that match.
DfaMatchingKeys(dfa, source_state, log_entry, ignore_guard) ==
    MatchingKeys(dfa.transitions, source_state, log_entry, ignore_guard)

\* make_guarded_transition, lines 92-93: the value at the first matching key.
DfaFirstMatch(d, hits) ==
    IF hits = {} THEN [found |-> FALSE, dst |-> <<>>]
    ELSE [found |-> TRUE, dst |-> d[FirstIndex(hits)].dst]

\* DFA.make_guarded_transition
make_guarded_transition(dfa, source_state, log_entry, ignore_guard) ==
    DfaFirstMatch(dfa.transitions,
                  DfaMatchingKeys(dfa, source_state, log_entry, ignore_guard))

\* dfa_check_acceptance, lines 69-70: the retry with ignore_guard=True.
DfaRetry(dfa, curr_state, e, guarded) ==
    IF guarded.found THEN guarded ELSE make_guarded_transition(dfa, curr_state, e, TRUE)

\* dfa_check_acceptance, lines 68-76: the state one entry leads to.
DfaStep(dfa, curr_state, e) ==
    DfaRetry(dfa, curr_state, e, make_guarded_transition(dfa, curr_state, e, FALSE))

RECURSIVE DfaLoop(_, _, _, _)
RECURSIVE DfaNext(_, _, _, _)
\* dfa_check_acceptance, lines 71-76: reject, or go on from the next state.
DfaNext(dfa, l_vector, i, step) ==
    IF ~step.found THEN FALSE ELSE DfaLoop(dfa, l_vector, i + 1, step.dst)

\* dfa_check_acceptance, lines 66-77, from entry i on.
DfaLoop(dfa, l_vector, i, curr_state) ==
    IF i > Len(l_vector) THEN curr_state \in dfa.accepting_states
    ELSE DfaNext(dfa, l_vector, i, DfaStep(dfa, curr_state, l_vector[i]))

\* DFA.dfa_check_acceptance(l_vector)
dfa_check_acceptance(dfa, l_vector) ==
    DfaLoop(dfa, l_vector, 1, dfa.initial_state)

\* --------------------------------------------------------- determinization
\* str(name) for a state name inside a list: its numerals joined by ",".
NameText(name) == [i \in 1..(2 * Len(name) - 1) |->
                      IF i % 2 = 1 THEN name[(i + 1) \div 2] ELSE ","]

RECURSIVE NamesText(_)
\* The names of a list, each between quotes, separated by "', '".
NamesText(names) ==
    IF Len(names) = 1 THEN NameText(names[1])
    ELSE NameText(names[1]) \o <<"', '">> \o NamesText(Tail(names))

\* str(natsorted(eval(state))) for the subset state S: "['0', '1,2']" as the
\* chunks natsort splits it into, text and numerals in turn.
ListText(S) == <<"['">> \o NamesText(natsorted(S)) \o <<"']">>

\* The text chunks of a list's string in code-point order.
TextOrder == <<"', '", "']", ",", "['">>

\* The place of a text chunk in that order.
TextRank(a) == CHOOSE i \in 1..Len(TextOrder) : TextOrder[i] = a

RECURSIVE TextLess(_, _, _)
\* natsort's order on two such strings, from chunk i on: text chunks (the odd
\* ones) compare as strings, numerals as numbers, a proper prefix comes first.
TextLess(a, b, i) ==
    IF i > Len(a) THEN i <= Len(b)
    ELSE IF i > Len(b) THEN FALSE
    ELSE IF a[i] /= b[i]
    THEN IF i % 2 = 1 THEN TextRank(a[i]) < TextRank(b[i]) ELSE a[i] < b[i]
    ELSE TextLess(a, b, i + 1)

RECURSIVE natsorted_sets(_)
\* shorten_states, lines 105-114 with consider_set_names: the subset states
\* in natural order of their list strings.
natsorted_sets(states) ==
    IF states = {} THEN <<>>
    ELSE LET m == CHOOSE x \in states :
                    \A y \in states \ {x} : TextLess(ListText(x), ListText(y), 1)
         IN  <<m>> \o natsorted_sets(states \ {m})

\* shorten_states, lines 143-147: the dict rebuilt under rename_map.
RECURSIVE ShortenTransitions(_, _, _)
ShortenTransitions(d, rename_map, new_transitions) ==
    IF d = <<>> THEN new_transitions
    ELSE ShortenTransitions(Tail(d), rename_map,
            DictSet(new_transitions, rename_map[d[1].src], d[1].word, rename_map[d[1].dst]))

\* shorten_states, lines 124-153: every name replaced through rename_map.
ShortenBy(dfa, rename_map) ==
    [alphabet |-> dfa.alphabet,
     states |-> {rename_map[q] : q \in dfa.states},
     initial_state |-> rename_map[dfa.initial_state],
     accepting_states |-> {rename_map[q] : q \in dfa.accepting_states},
     transitions |-> ShortenTransitions(dfa.transitions, rename_map, <<>>)]

\* DFA.shorten_states(consider_set_names): state i of the sorted list is named str(i).
shorten_states(dfa, consider_set_names) ==
    ShortenBy(dfa, RenameMap(IF consider_set_names THEN natsorted_sets(dfa.states)
                             ELSE natsorted(dfa.states), 0))

\* The orders a Python set of the words in alphabet may be iterated in.
IterationOrders(alphabet) ==
    {o \in [1..Cardinality(alphabet) -> alphabet] :
        \A i, j \in 1..Cardinality(alphabet) : o[i] = o[j] => i = j}

\* The states the states of current_set reach on the symbol a.
Move(nfa, current_set, a) ==
    UNION {nfa.transitions[i].dst :
              i \in {j \in 1..Len(nfa.transitions) :
                        /\ nfa.transitions[j].src \in current_set
                        /\ nfa.transitions[j].word = a}}

RECURSIVE SubsetLoop(_, _, _, _, _, _)
RECURSIVE SubsetVisit(_, _, _, _, _, _, _)
\* Subset construction: next_set reached from the head of the queue on symbol
\* number i; an empty set is no state.
SubsetVisit(nfa, alphabet_list, sets_queue, i, sets_states, transitions, next_set) ==
    IF next_set = {}
    THEN SubsetLoop(nfa, alphabet_list, sets_queue, i + 1, sets_states, transitions)
    ELSE SubsetLoop(nfa, alphabet_list,
            IF next_set \in sets_states THEN sets_queue ELSE Append(sets_queue, next_set),
            i + 1,
            sets_states \cup {next_set},
            Append(transitions, [src |-> Head(sets_queue), word |-> alphabet_list[i],
                                 dst |-> next_set]))

\* Subset construction: the worklist of subsets, each taken through the alphabet.
SubsetLoop(nfa, alphabet_list, sets_queue, i, sets_states, transitions) ==
    IF sets_queue = <<>> THEN [states |-> sets_states, transitions |-> transitions]
    ELSE IF i > Len(alphabet_list)
    THEN SubsetLoop(nfa, alphabet_list, Tail(sets_queue), 1, sets_states, transitions)
    ELSE SubsetVisit(nfa, alphabet_list, sets_queue, i, sets_states, transitions,
                     Move(nfa, Head(sets_queue), alphabet_list[i]))

\* The DFA of the subsets reached: initial {q0}, accepting those that meet F.
SubsetDFA(nfa, reached) ==
    [alphabet |-> nfa.alphabet,
     states |-> reached.states,
     initial_state |-> {nfa.initial_state},
     accepting_states |-> {S \in reached.states : S \cap nfa.accepting_states /= {}},
     transitions |-> reached.transitions]

\* nfa_determinization(ext_nfa): the classical subset construction, the
\* alphabet iterated in the order alphabet_list.
nfa_determinization(nfa, alphabet_list) ==
    SubsetDFA(nfa, SubsetLoop(nfa, alphabet_list, <<{nfa.initial_state}>>, 1,
                              {{nfa.initial_state}}, <<>>))

\* NFA.standard_determinize_core()
standard_determinize(nfa, alphabet_list) ==
    shorten_states(nfa_determinization(nfa, alphabet_list), TRUE)

\* heuristic_determinize, lines 426-431: one iteration of the loop: stop, or
\* merge the image found. raised: exit(-1) on an empty image, or the
\* AssertionError of merge_states.
HeuristicIterate_stopping_after_one_merge(loop, non_det_states) ==
    IF non_det_states.kind = "none" THEN [loop EXCEPT !.done = TRUE]
    ELSE IF non_det_states.kind = "exit" \/ ~(non_det_states.states \subseteq loop.nfa.states)
    THEN [loop EXCEPT !.raised = TRUE, !.done = TRUE]
    ELSE [loop EXCEPT !.nfa = merge_states(loop.nfa, non_det_states.states).nfa,
                      !.merges = @ + 1, !.done = TRUE]

HeuristicIterate(loop, non_det_states) ==
    IF non_det_states.kind = "none" THEN [loop EXCEPT !.done = TRUE]
    ELSE IF non_det_states.kind = "exit" \/ ~(non_det_states.states \subseteq loop.nfa.states)
    THEN [loop EXCEPT !.raised = TRUE, !.done = TRUE]
    ELSE [loop EXCEPT !.nfa = merge_states(loop.nfa, non_det_states.states).nfa,
                      !.merges = @ + 1]

\* heuristic_determinize, lines 424-425: no merge made yet.
HeuristicStart(nfa) == [raised |-> FALSE, done |-> FALSE, nfa |-> nfa, merges |-> 0]

RECURSIVE HeuristicLoop(_)
\* heuristic_determinize, lines 425-432: the loop, run to its break.
HeuristicLoop(loop) ==
    IF loop.done THEN loop
    ELSE HeuristicLoop(HeuristicIterate(loop, find_non_deterministic_states(loop.nfa)))

\* heuristic_determinize, lines 442-443: each image popped into the DFA's dict.
PopImages(d) ==
    [i \in 1..Len(d) |-> [src |-> d[i].src, word |-> d[i].word,
                          dst |-> CHOOSE q \in d[i].dst : TRUE]]

\* ... which leaves the NFA's own images empty.
EmptyImages(d) ==
    [i \in 1..Len(d) |-> [src |-> d[i].src, word |-> d[i].word, dst |-> {}]]

\* heuristic_determinize, lines 434-454: the DFA built from the merged NFA;
\* self is the NFA as the call leaves it.
HeuristicResult(loop) ==
    IF loop.raised
    THEN [raised |-> TRUE, self |-> loop.nfa, dfa |-> NoModel, merges |-> loop.merges]
    ELSE [raised |-> FALSE,
          self |-> [loop.nfa EXCEPT !.transitions = EmptyImages(@)],
          dfa |-> shorten_states([loop.nfa EXCEPT !.transitions = PopImages(@)], FALSE),
          merges |-> loop.merges]

\* NFA.heuristic_determinize()
heuristic_determinize(nfa) == HeuristicResult(HeuristicLoop(HeuristicStart(nfa)))

\* Transition ids in natural order.
TidOrder == <<"a", "b">>

\* Guards in natsort's order: None (keyed as a number) before any text, then
\* the texts by code point ('!' before '=').
GuardOrder == <<None, GuardNe1, GuardEq1>>

\* The place of x in the list.
PlaceIn(list, x) == CHOOSE i \in 1..Len(list) : list[i] = x

\* natsort's order on words (tid, guard)
WordLess(v, w) ==
    \/ PlaceIn(TidOrder, v[1]) < PlaceIn(TidOrder, w[1])
    \/ v[1] = w[1] /\ PlaceIn(GuardOrder, v[2]) < PlaceIn(GuardOrder, w[2])

RECURSIVE natsorted_words(_)
\* natsorted(self.alphabet)
natsorted_words(alphabet) ==
    IF alphabet = {} THEN <<>>
    ELSE LET m == CHOOSE x \in alphabet : \A y \in alphabet \ {x} : WordLess(x, y)
         IN  <<m>> \o natsorted_words(alphabet \ {m})

RECURSIVE Enqueue(_, _, _)
\* hybrid_determinize, lines 510-512 and 515-517: the states of the list not
\* visited and not waiting are appended to working_set.
Enqueue(working_set, states_list, visited) ==
    IF states_list = <<>> THEN working_set
    ELSE Enqueue(IF states_list[1] \in visited
                    \/ states_list[1] \in {working_set[i] : i \in 1..Len(working_set)}
                 THEN working_set
                 ELSE Append(working_set, states_list[1]),
                 Tail(states_list), visited)

\* max(merge_count_per_state.pop(s) + 1 for s in non_det_states), from 0
MaxMergedCount(merge_count_per_state, non_det_states) ==
    CHOOSE m \in {merge_count_per_state[q] + 1 : q \in non_det_states} :
        \A q \in non_det_states : merge_count_per_state[q] + 1 <= m

RECURSIVE HybridWords(_, _, _, _, _)
RECURSIVE HybridImage(_, _, _, _, _, _)
RECURSIVE HybridMerge(_, _, _, _, _, _, _, _)
\* A merge that never adds the merged state to the excluded states.
HybridMerge_without_excluding(st, k, curr, word_list, i, dst_states, merged, max_merged_count) ==
    HybridWords(
        [nfa |-> merged.nfa,
         working_set |->
            Enqueue(SelectSeq(st.working_set,
                              LAMBDA q : q \notin (dst_states \ st.excluding)),
                    natsorted((dst_states \cup {merged.s_m}) \ (dst_states \ st.excluding)),
                    st.visited),
         visited |-> st.visited,
         excluding |-> st.excluding,
         merge_count_per_state |->
            [q \in ((DOMAIN st.merge_count_per_state) \ (dst_states \ st.excluding))
                        \cup {merged.s_m} |->
                IF q = merged.s_m THEN max_merged_count ELSE st.merge_count_per_state[q]],
         merges |-> st.merges + 1,
         pops |-> st.pops],
        k, curr, word_list, i + 1)

\* hybrid_determinize, lines 493-512: non_det_states merged into merged.s_m
\* with merge count max_merged_count.
HybridMerge(st, k, curr, word_list, i, dst_states, merged, max_merged_count) ==
    HybridWords(
        [nfa |-> merged.nfa,
         working_set |->
            Enqueue(SelectSeq(st.working_set,
                              LAMBDA q : q \notin (dst_states \ st.excluding)),
                    natsorted((dst_states \cup {merged.s_m}) \ (dst_states \ st.excluding)),
                    st.visited),
         visited |-> st.visited,
         excluding |-> IF max_merged_count >= k THEN st.excluding \cup {merged.s_m}
                       ELSE st.excluding,
         merge_count_per_state |->
            [q \in ((DOMAIN st.merge_count_per_state) \ (dst_states \ st.excluding))
                        \cup {merged.s_m} |->
                IF q = merged.s_m THEN max_merged_count ELSE st.merge_count_per_state[q]],
         merges |-> st.merges + 1,
         pops |-> st.pops],
        k, curr, word_list, i + 1)

\* hybrid_determinize, lines 488-517: the image of (curr, word) merged or queued.
HybridImage_without_merge(st, k, curr, word_list, i, dst_states) ==
    HybridWords([st EXCEPT !.working_set =
                               Enqueue(@, natsorted(dst_states), st.visited)],
                k, curr, word_list, i + 1)

HybridImage(st, k, curr, word_list, i, dst_states) ==
    IF Cardinality(dst_states \ st.excluding) > 1
    THEN HybridMerge(st, k, curr, word_list, i, dst_states,
                     merge_states(st.nfa, dst_states \ st.excluding),
                     MaxMergedCount(st.merge_count_per_state, dst_states \ st.excluding))
    ELSE HybridWords([st EXCEPT !.working_set =
                                    Enqueue(@, natsorted(dst_states), st.visited)],
                     k, curr, word_list, i + 1)

\* hybrid_determinize, lines 485-517: the words from number i on, for curr.
HybridWords(st, k, curr, word_list, i) ==
    IF i > Len(word_list) THEN st
    ELSE IF KeyIndex(st.nfa.transitions, curr, word_list[i]) = 0
    THEN HybridWords(st, k, curr, word_list, i + 1)
    ELSE HybridImage(st, k, curr, word_list, i,
             st.nfa.transitions[KeyIndex(st.nfa.transitions, curr, word_list[i])].dst)

\* hybrid_determinize, lines 481-517: one iteration of the while loop: the
\* next state is taken from working_set and its words are gone through.
HybridPop(st, k, word_list) ==
    HybridWords([st EXCEPT !.working_set = Tail(@),
                           !.visited = @ \cup {Head(st.working_set)},
                           !.pops = @ + 1],
                k, Head(st.working_set), word_list, 1)

RECURSIVE HybridLoop(_, _, _)
\* hybrid_determinize, line 480: while working_set
HybridLoop(st, k, word_list) ==
    IF st.working_set = <<>> THEN st
    ELSE HybridLoop(HybridPop(st, k, word_list), k, word_list)

\* hybrid_determinize, lines 471-479: the search starts at the initial state.
HybridStart(nfa) ==
    [nfa |-> nfa,
     working_set |-> <<nfa.initial_state>>,
     visited |-> {},
     excluding |-> {},
     merge_count_per_state |-> [q \in nfa.states |-> 0],
     merges |-> 0,
     pops |-> 0]

\* hybrid_determinize, line 522: standard determinization of what the search left.
HybridResult(st, alphabet_list) ==
    [raised |-> FALSE, self |-> st.nfa, dfa |-> standard_determinize(st.nfa, alphabet_list),
     merges |-> st.merges, pops |-> st.pops, excluding |-> st.excluding]

\* NFA.hybrid_determinize(per_state_merge_limit)
hybrid_determinize(nfa, per_state_merge_limit, alphabet_list) ==
    IF per_state_merge_limit = 0
    THEN [raised |-> FALSE, self |-> nfa, dfa |-> standard_determinize(nfa, alphabet_list),
          merges |-> 0, pops |-> 0, excluding |-> {}]
    ELSE HybridResult(HybridLoop(HybridStart(nfa), per_state_merge_limit,
                                 natsorted_words(nfa.alphabet)),
                      alphabet_list)

\* postprocess, lines 269-272: what the strategy returned or raised, and the
\* copy as it left it.
DeterminizeOutcome(r) == [raised |-> r.raised, self |-> r.self, dfa |-> r.dfa]

\* postprocess, lines 267-272: the strategy named by determinize_technique,
\* <<"standard">>, <<"heuristic">> or <<"hybrid", k>> for 'hybrid-k', run on
\* the copy; self is the copy as the strategy leaves it.
DeterminizeCopy(copy, determinize_technique, alphabet_list) ==
    IF determinize_technique[1] = "standard"
    THEN [raised |-> FALSE, self |-> copy, dfa |-> standard_determinize(copy, alphabet_list)]
    ELSE IF determinize_technique[1] = "heuristic"
    THEN DeterminizeOutcome(heuristic_determinize(copy))
    ELSE DeterminizeOutcome(hybrid_determinize(copy, determinize_technique[2], alphabet_list))

\* A postprocess that determinizes the NFA it was given, not a copy of it.
PostprocessReturn_without_deepcopy(nfa_sys, r, timed_out) ==
    [raised |-> r.raised \/ timed_out,
     m_sys |-> r.self,
     dfa_sys |-> IF r.raised \/ timed_out THEN NoModel ELSE r.dfa]

\* postprocess, lines 265-280: the strategy ran on deepcopy(m_sys), so the
\* caller's m_sys is as it was; raised is an error of the strategy or the
\* FunctionTimedOut of standard_determinize.
PostprocessReturn(nfa_sys, r, timed_out) ==
    [raised |-> r.raised \/ timed_out,
     m_sys |-> nfa_sys,
     dfa_sys |-> IF r.raised \/ timed_out THEN NoModel ELSE r.dfa]

\* PRINS.postprocess(m_sys, determinize_technique), nfa_sys for m_sys
postprocess(nfa_sys, determinize_technique, alphabet_list, timed_out) ==
    PostprocessReturn(nfa_sys, DeterminizeCopy(nfa_sys, determinize_technique, alphabet_list),
                      timed_out)

\* ----------------------------------------------------------------- inputs
\* Alphabet symbols (tid, guard) an enumerated automaton may use.
Words == {<<"a", None>>, <<"a", GuardEq1>>, <<"a", GuardNe1>>, <<"b", None>>}

\* States "0" .. str(MaxStates - 1).
InputStates == {Atom(i) : i \in 0..(MaxStates - 1)}

\* The values field of a log entry: [], ['1'], ['2'] and ['1 '].
ValueLists == {<<>>, << <<"1">> >>, << <<"2">> >>, << <<"1", " ">> >>}

\* Log entries as the automaton layer reads them (tid and values).
Entries == [tid : {"a", "b"}, values : ValueLists]

\* Traces of at most MaxTraceLen entries.
Traces == UNION {[1..n -> Entries] : n \in 0..MaxTraceLen}

KeysDistinct(d) ==
    \A i, j \in 1..Len(d) : (d[i].src = d[j].src /\ d[i].word = d[j].word) => i = j

\* Transition dicts of an NFA: at most MaxTransitions keys, in every insertion
\* order, every image a non-empty set of states.
NfaTransitionDicts ==
    {d \in UNION {[1..n -> [src : InputStates, word : Words,
                            dst : SUBSET InputStates \ {{}}]] : n \in 0..MaxTransitions} :
        KeysDistinct(d)}

\* Transition dicts of a DFA: every image one state.
DfaTransitionDicts ==
    {d \in UNION {[1..n -> [src : InputStates, word : Words,
                            dst : InputStates]] : n \in 0..MaxTransitions} :
        KeysDistinct(d)}

\* NFA(component, ext_nfa) for the enumerated ext_nfa dicts.
InputNFAs ==
    {MkNFA({d[i].word : i \in 1..Len(d)}, InputStates, Atom(0), F, d) :
        d \in NfaTransitionDicts, F \in SUBSET InputStates}

\* DFA(component, ext_dfa) for the enumerated ext_dfa dicts.
InputDFAs ==
    {MkNFA({d[i].word : i \in 1..Len(d)}, InputStates, Atom(0), F, d) :
        d \in DfaTransitionDicts, F \in SUBSET InputStates}

\* -------------------------------------------------- acceptance checks (SpecAcc)
\* Values of the variables a specification does not use.
IdleAcc ==
    /\ chk_nfa = NoModel /\ chk_dfa = NoModel /\ chk_trace = <<>>
    /\ chk_done = "none" /\ nfa_accepted = FALSE /\ dfa_accepted = FALSE

NoCall == [op |-> "none", raised |-> FALSE, padding |-> 0, ms |-> {}, s_m |-> <<>>,
           other |-> NoModel, other_after |-> NoModel, third |-> NoModel,
           left |-> NoModel, right |-> NoModel, models |-> <<>>, models_after |-> <<>>]

NoMerge == [made |-> FALSE, pre |-> NoModel, ms |-> {}, s_m |-> <<>>, post |-> NoModel]

IdleOps ==
    /\ obj = NoModel /\ obj_before = NoModel /\ call = NoCall
    /\ merge_call = NoMerge /\ n_calls = 0

NoSlice == [made |-> FALSE, raised |-> FALSE, l_vector |-> <<>>, cursor |-> <<>>,
            cursor_after |-> <<>>, self_before |-> NoModel, sliced |-> NoModel,
            calls |-> <<>>]

IdleSlice ==
    /\ comp_model = NoModel /\ comp_cursor = <<>>
    /\ slice_call = NoSlice /\ slice_again = NoSlice

\* No stitch call made.
NoStitch == [log_id |-> 0, raised |-> FALSE, slices |-> <<>>, slice_starting_states |-> <<>>]

\* No worker pool: the component models are given.
NoWorkers == [num_workers |-> 0, futures |-> <<>>]

IdlePipe ==
    /\ l_vectors = <<>> /\ inferred = <<>> /\ appended_models = <<>>
    /\ m_sys = NoModel /\ phase = "idle" /\ checked = {} /\ accepted = {}
    /\ stitch_call = NoStitch
    /\ workers = NoWorkers

NoDet == [op |-> "none", k |-> 0, raised |-> FALSE, self |-> NoModel, dfa |-> NoModel,
          heuristic |-> NoModel, standard |-> NoModel, merges |-> 0, pops |-> 0,
          excluding |-> {}]

NoDetCheck == [made |-> FALSE, trace |-> <<>>, nfa_accepted |-> FALSE,
               dfa_accepted |-> FALSE]

\* No merge loop entered.
NoLoop ==
    [op |-> "none", k |-> 0, raised |-> FALSE, done |-> FALSE, nfa |-> NoModel, merges |-> 0,
     curr |-> <<>>, i |-> 0,
     st |-> [nfa |-> NoModel, working_set |-> <<>>, visited |-> {}, excluding |-> {},
             merge_count_per_state |-> <<>>, merges |-> 0, pops |-> 0]]

IdleDet ==
    det_nfa = NoModel /\ det_call = NoDet /\ det_check = NoDetCheck /\ det_loop = NoLoop

NoProj == [op |-> "none", l_vector |-> <<>>, component_logs |-> <<>>,
           partitioned_log |-> <<>>]

IdleProj == proj_logs = <<>> /\ proj_call = NoProj

InitAcc ==
    /\ IdleOps /\ IdleSlice /\ IdlePipe /\ IdleDet /\ IdleProj
    /\ \/ chk_nfa \in InputNFAs /\ chk_dfa = NoModel
       \/ chk_dfa \in InputDFAs /\ chk_nfa = NoModel
    /\ chk_trace = <<>>
    /\ chk_done = "none"
    /\ nfa_accepted = FALSE
    /\ dfa_accepted = FALSE

\* model.nfa_check_acceptance(chk_trace)
NfaCheckAcceptance ==
    /\ chk_nfa /= NoModel
    /\ chk_done = "none"
    /\ chk_done' = "nfa"
    /\ \E t \in Traces :
        /\ chk_trace' = t
        /\ nfa_accepted' = nfa_check_acceptance(chk_nfa, t)
    /\ UNCHANGED <<chk_nfa, chk_dfa, dfa_accepted, opsVars, sliceVars, pipeVars, detVars, projVars>>

\* model.dfa_check_acceptance(chk_trace)
DfaCheckAcceptance ==
    /\ chk_dfa /= NoModel
    /\ chk_done = "none"
    /\ chk_done' = "dfa"
    /\ \E t \in Traces :
        /\ chk_trace' = t
        /\ dfa_accepted' = dfa_check_acceptance(chk_dfa, t)
    /\ UNCHANGED <<chk_nfa, chk_dfa, nfa_accepted, opsVars, sliceVars, pipeVars, detVars, projVars>>

NextAcc == NfaCheckAcceptance \/ DfaCheckAcceptance

SpecAcc == InitAcc /\ [][NextAcc]_vars

\* ------------------------------------------------------ mutators (SpecOps)
\* A slice as NFA.slice returns it for a walk of at most one entry: the states
\* visited, the first its initial state, the last its only accepting state.
WalkNFA(path) ==
    MkNFA(IF Len(path) = 1 THEN {} ELSE {<<"a", None>>},
          {path[i] : i \in 1..Len(path)},
          path[1],
          {path[Len(path)]},
          IF Len(path) = 1 THEN <<>>
          ELSE <<[src |-> path[1], word |-> <<"a", None>>, dst |-> {path[2]}]>>)

\* The slices of component models whose states are "0" .. str(MaxAtom).
Slices ==
    {WalkNFA(path) : path \in UNION {[1..n -> {Atom(i) : i \in 0..MaxAtom}] : n \in 1..2}}

InitOps ==
    /\ IdleAcc /\ IdleSlice /\ IdlePipe /\ IdleDet /\ IdleProj
    /\ obj \in Slices
    /\ obj_before = NoModel
    /\ call = NoCall
    /\ merge_call = NoMerge
    /\ n_calls = 0

\* obj.rename_states(padding)
CallRenameStates ==
    /\ n_calls < MaxCalls
    /\ \E padding \in 0..MaxPadding :
        /\ obj' = rename_states(obj, padding)
        /\ call' = [NoCall EXCEPT !.op = "rename_states", !.padding = padding]
    /\ obj_before' = obj
    /\ n_calls' = n_calls + 1
    /\ UNCHANGED <<merge_call, accVars, sliceVars, pipeVars, detVars, projVars>>

\* obj.merge_states(ms)
CallMergeStates ==
    /\ n_calls < MaxCalls
    /\ \E ms \in SUBSET obj.states :
        /\ Cardinality(ms) >= 2
        /\ \E r \in {merge_states(obj, ms)} :
            /\ obj' = r.nfa
            /\ call' = [NoCall EXCEPT !.op = "merge_states", !.ms = ms,
                                      !.s_m = r.s_m, !.raised = r.raised]
            /\ merge_call' = [made |-> TRUE, pre |-> obj, ms |-> ms,
                              s_m |-> r.s_m, post |-> r.nfa]
    /\ obj_before' = obj
    /\ n_calls' = n_calls + 1
    /\ UNCHANGED <<accVars, sliceVars, pipeVars, detVars, projVars>>

\* obj.append(other), other a fresh slice
CallAppend ==
    /\ n_calls < MaxCalls
    /\ Cardinality(obj.accepting_states) = 1
    /\ \E other \in Slices :
       \E r \in {append(obj, other)} :
            /\ obj' = r.self
            /\ call' = [NoCall EXCEPT !.op = "append", !.other = other,
                                      !.other_after = r.nfa, !.raised = r.raised]
            /\ merge_call' = IF r.raised THEN merge_call
                             ELSE [made |-> TRUE, pre |-> r.joined, ms |-> r.ms,
                                   s_m |-> CommaJoin(natsorted(r.ms)), post |-> r.self]
    /\ obj_before' = obj
    /\ n_calls' = n_calls + 1
    /\ UNCHANGED <<accVars, sliceVars, pipeVars, detVars, projVars>>

\* Two more slices appended to copies of obj in both groupings:
\* left = (obj.append(B)).append(C), right = obj.append(B.append(C)).
CallAppendBothWays ==
    /\ n_calls + 2 <= MaxCalls
    /\ Cardinality(obj.accepting_states) = 1
    /\ \E B \in Slices, C \in Slices :
       \E ab \in {append(obj, B)}, bc \in {append(B, C)} :
       \E abc \in {append(ab.self, C)}, a_bc \in {append(obj, bc.self)} :
            call' = [NoCall EXCEPT !.op = "append_both_ways", !.other = B, !.third = C,
                        !.raised = ab.raised \/ abc.raised \/ bc.raised \/ a_bc.raised,
                        !.left = abc.self, !.right = a_bc.self]
    /\ obj_before' = obj
    /\ n_calls' = n_calls + 2
    /\ UNCHANGED <<obj, merge_call, accVars, sliceVars, pipeVars, detVars, projVars>>

\* obj = NFA.union_nfa_models(models), models the copy of obj alone or
\* followed by further models
CallUnionNfaModels ==
    /\ n_calls < MaxCalls
    /\ \E rest \in UNION {[1..n -> Slices] : n \in 0..(MaxModels - 1)} :
       \E r \in {union_nfa_models(<<obj>> \o rest)} :
            /\ obj' = IF r.raised THEN obj ELSE r.nfa
            /\ call' = [NoCall EXCEPT !.op = "union_nfa_models", !.raised = r.raised,
                                      !.models = <<obj>> \o rest,
                                      !.models_after = r.models]
    /\ obj_before' = obj
    /\ n_calls' = n_calls + 1
    /\ UNCHANGED <<merge_call, accVars, sliceVars, pipeVars, detVars, projVars>>

NextOps ==
    \/ CallRenameStates \/ CallMergeStates \/ CallAppend \/ CallAppendBothWays
    \/ CallUnionNfaModels

SpecOps == InitOps /\ [][NextOps]_vars

\* ------------------------------------------------------ slicing (SpecSlice)
InitSlice ==
    /\ IdleAcc /\ IdleOps /\ IdlePipe /\ IdleDet /\ IdleProj
    /\ comp_model \in InputNFAs
    /\ comp_cursor \in comp_model.states
    /\ slice_call = NoSlice
    /\ slice_again = NoSlice

\* model_sliced = M.slice(l_vector, slice_starting_states)
Slice ==
    /\ ~slice_call.made
    /\ \E l_vector \in Traces :
       \E r \in {slice(comp_model, l_vector, comp_cursor)} :
            /\ comp_model' = r.self
            /\ comp_cursor' = r.cursor
            /\ slice_call' = [made |-> TRUE, raised |-> r.raised, l_vector |-> l_vector,
                              cursor |-> comp_cursor, cursor_after |-> r.cursor,
                              self_before |-> comp_model, sliced |-> r.sliced,
                              calls |-> r.calls]
    /\ UNCHANGED <<slice_again, accVars, opsVars, pipeVars, detVars, projVars>>

\* The cursor put back to its value before the last call, and the call repeated.
SliceAgain ==
    /\ slice_call.made
    /\ ~slice_again.made
    /\ \E r \in {slice(comp_model, slice_call.l_vector, slice_call.cursor)} :
           /\ comp_model' = r.self
           /\ comp_cursor' = r.cursor
           /\ slice_again' = [made |-> TRUE, raised |-> r.raised,
                              l_vector |-> slice_call.l_vector,
                              cursor |-> slice_call.cursor, cursor_after |-> r.cursor,
                              self_before |-> comp_model, sliced |-> r.sliced,
                              calls |-> r.calls]
    /\ UNCHANGED <<slice_call, accVars, opsVars, pipeVars, detVars, projVars>>

NextSlice == Slice \/ SliceAgain

SpecSlice == InitSlice /\ [][NextSlice]_vars

\* ------------------------------------------------------------ pipeline (Spec)
Components == {"c1", "c2"}

\* Log entries of a system-level log.
LogEntries == [component : Components, tid : {"a"}, values : {<< <<"1">> >>, << <<"2">> >>}]

\* Non-empty logs of at most MaxLogLen entries.
Logs == UNION {[1..n -> LogEntries] : n \in 1..MaxLogLen}

\* PRINS.l_vectors: one log per execution.
Corpora == UNION {[1..n -> Logs] : n \in 1..MaxExecutions}

\* Deterministic models as the learner returns them: states "0" .. , initial
\* state "0", at most one transition, guarded or not.
ComponentModels ==
    {MkNFA({d[i].word : i \in 1..Len(d)}, InputStates, Atom(0), InputStates, d) :
        d \in {<<>>} \cup
              {<<[src |-> q, word |-> w, dst |-> {r}]>> :
                  q \in InputStates, r \in InputStates,
                  w \in {<<"a", None>>, <<"a", GuardEq1>>}}}

Init ==
    /\ IdleAcc /\ IdleOps /\ IdleSlice /\ IdleDet /\ IdleProj
    /\ l_vectors \in Corpora
    /\ inferred \in [Components -> ComponentModels]
    /\ appended_models = <<>>
    /\ m_sys = NoModel
    /\ phase = "stitch"
    /\ stitch_call = NoStitch
    /\ workers = NoWorkers
    /\ checked = {}
    /\ accepted = {}

\* run, lines 129-132: one turn of the stitch loop.
Stitch ==
    /\ phase = "stitch"
    /\ \E r \in {stitch(l_vectors[Len(appended_models) + 1], inferred)} :
           /\ stitch_call' = [log_id |-> Len(appended_models) + 1, raised |-> r.raised,
                               slices |-> r.slices,
                               slice_starting_states |-> r.slice_starting_states]
           /\ IF r.raised
              THEN phase' = "failed" /\ UNCHANGED appended_models
              ELSE /\ appended_models' = Append(appended_models, r.model_appended)
                   /\ phase' = IF Len(appended_models) + 1 = Len(l_vectors)
                               THEN "union" ELSE "stitch"
    /\ UNCHANGED <<l_vectors, inferred, m_sys, workers, checked, accepted,
                   accVars, opsVars, sliceVars, detVars, projVars>>

\* run, line 154
Union ==
    /\ phase = "union"
    /\ \E r \in {union_nfa_models(appended_models)} :
           IF r.raised
           THEN phase' = "failed" /\ UNCHANGED <<m_sys, appended_models>>
           ELSE /\ m_sys' = r.nfa
                /\ appended_models' = r.models
                /\ phase' = "rename"
    /\ UNCHANGED <<l_vectors, inferred, stitch_call, workers, checked, accepted,
                   accVars, opsVars, sliceVars, detVars, projVars>>

\* run, line 157
RenameSystemModel ==
    /\ phase = "rename"
    /\ m_sys' = rename_states(m_sys, 0)
    /\ phase' = "done"
    /\ UNCHANGED <<l_vectors, inferred, appended_models, stitch_call, workers, checked,
                   accepted,
                   accVars, opsVars, sliceVars, detVars, projVars>>

\* m_sys.nfa_check_acceptance(l_vector) for the next training trace.
CheckTrainingTrace ==
    /\ phase = "done"
    /\ Cardinality(checked) < Len(l_vectors)
    /\ LET log_id == Cardinality(checked) + 1
       IN  /\ checked' = checked \cup {log_id}
           /\ accepted' = IF nfa_check_acceptance(m_sys, l_vectors[log_id])
                          THEN accepted \cup {log_id} ELSE accepted
    /\ UNCHANGED <<l_vectors, inferred, appended_models, m_sys, phase, stitch_call, workers,
                   accVars, opsVars, sliceVars, detVars, projVars>>

Next == Stitch \/ Union \/ RenameSystemModel \/ CheckTrainingTrace

Spec == Init /\ [][Next]_vars

\* ------------------------------------------------------ stitching (SpecStitch)
MaxStitchLen == 3

\* Logs of at most MaxStitchLen entries with tid "a", long enough for an
\* execution to leave a component and come back to it.
StitchLogs ==
    UNION {[1..n -> [component : Components, tid : {"a"}, values : {<< <<"1">> >>}]] :
              n \in 1..MaxStitchLen}

\* Deterministic models as the learner returns them: at most MaxTransitions
\* transitions on "a", every image one state.
StitchModels ==
    {MkNFA({d[i].word : i \in 1..Len(d)}, InputStates, Atom(0), InputStates, d) :
        d \in {x \in UNION {[1..n -> [src : InputStates, word : {<<"a", None>>},
                                      dst : {{q} : q \in InputStates}]] :
                                n \in 0..MaxTransitions} : KeysDistinct(x)}}

\* run, lines 125-132: the component models inferred, the stitch loop ahead.
InitStitch ==
    /\ IdleAcc /\ IdleOps /\ IdleSlice /\ IdleDet /\ IdleProj
    /\ l_vectors \in UNION {[1..n -> StitchLogs] : n \in 1..MaxExecutions}
    /\ inferred \in [Components -> StitchModels]
    /\ appended_models = <<>>
    /\ m_sys = NoModel
    /\ phase = "stitch"
    /\ stitch_call = NoStitch
    /\ workers = NoWorkers
    /\ checked = {}
    /\ accepted = {}

SpecStitch == InitStitch /\ [][Stitch]_vars

\* ------------------------------------------- parallel inference (SpecInfer)
MaxWorkers == 2

\* The models the learner may return for a component (a subset of
\* ComponentModels: no transition, an unguarded step, a guarded self-loop).
InferModels ==
    {MkNFA({d[i].word : i \in 1..Len(d)}, InputStates, Atom(0), InputStates, d) :
        d \in {<<>>,
               <<[src |-> Atom(0), word |-> <<"a", None>>, dst |-> {Atom(1)}]>>,
               <<[src |-> Atom(0), word |-> <<"a", GuardEq1>>, dst |-> {Atom(0)}]>>}}

\* run, lines 104-108: one future submitted per component of component_logs
\* to a pool of num_workers processes; model is what the learner will return
\* for the component if it does not fail.
InitInfer ==
    /\ IdleAcc /\ IdleOps /\ IdleSlice /\ IdleDet /\ IdleProj
    /\ l_vectors \in Corpora
    /\ inferred = <<>>
    /\ appended_models = <<>>
    /\ m_sys = NoModel
    /\ phase = "inference"
    /\ stitch_call = NoStitch
    /\ workers \in [num_workers : 1..MaxWorkers,
                     futures : [ComponentsOf(l_vectors) ->
                                   [status : {"queued"}, model : InferModels]]]
    /\ checked = {}
    /\ accepted = {}

\* The futures of the pool that a process is running.
Running == {c \in DOMAIN workers.futures : workers.futures[c].status = "running"}

\* A free process of the pool takes a queued call of component_model_inference.
WorkerStart ==
    /\ phase \in {"inference", "failed"}
    /\ Cardinality(Running) < workers.num_workers
    /\ \E c \in DOMAIN workers.futures :
           /\ workers.futures[c].status = "queued"
           /\ workers' = [workers EXCEPT !.futures[c].status = "running"]
    /\ UNCHANGED <<l_vectors, inferred, appended_models, m_sys, phase, stitch_call, checked,
                   accepted, accVars, opsVars, sliceVars, detVars, projVars>>

\* component_model_inference returns (component, component_model).
WorkerFinish ==
    /\ phase \in {"inference", "failed"}
    /\ \E c \in Running : workers' = [workers EXCEPT !.futures[c].status = "done"]
    /\ UNCHANGED <<l_vectors, inferred, appended_models, m_sys, phase, stitch_call, checked,
                   accepted, accVars, opsVars, sliceVars, detVars, projVars>>

\* component_model_inference raises: the learner timed out or failed.
WorkerFail ==
    /\ phase \in {"inference", "failed"}
    /\ \E c \in Running : workers' = [workers EXCEPT !.futures[c].status = "failed"]
    /\ UNCHANGED <<l_vectors, inferred, appended_models, m_sys, phase, stitch_call, checked,
                   accepted, accVars, opsVars, sliceVars, detVars, projVars>>

\* A collection that files every model under the first component collected.
Collected_under_one_key(component_models, component, component_model) ==
    [c \in (DOMAIN component_models) \cup
              {IF DOMAIN component_models = {} THEN component
               ELSE CHOOSE x \in DOMAIN component_models : TRUE} |-> component_model]

\* run, line 112: component_models[component] = component_model
Collected(component_models, component, component_model) ==
    [c \in (DOMAIN component_models) \cup {component} |->
        IF c = component THEN component_model ELSE component_models[c]]

\* run, lines 109-112: as_completed yields a future that has returned; the
\* loop ends, and the with block with it, when every future was yielded.
CollectResult ==
    /\ phase = "inference"
    /\ \E c \in DOMAIN workers.futures :
           /\ workers.futures[c].status = "done"
           /\ inferred' = Collected(inferred, c, workers.futures[c].model)
           /\ workers' = [workers EXCEPT !.futures[c].status = "collected"]
           /\ phase' = IF \A x \in (DOMAIN workers.futures) \ {c} :
                              workers.futures[x].status = "collected"
                       THEN "stitch" ELSE "inference"
    /\ UNCHANGED <<l_vectors, appended_models, m_sys, stitch_call, checked, accepted,
                   accVars, opsVars, sliceVars, detVars, projVars>>

\* run, line 110: as_completed yields a future that has raised, and
\* future.result() raises its exception in run.
CollectFailure ==
    /\ phase = "inference"
    /\ \E c \in DOMAIN workers.futures : workers.futures[c].status = "failed"
    /\ phase' = "failed"
    /\ UNCHANGED <<l_vectors, inferred, appended_models, m_sys, stitch_call, workers, checked,
                   accepted, accVars, opsVars, sliceVars, detVars, projVars>>

NextInfer ==
    \/ WorkerStart \/ WorkerFinish \/ WorkerFail \/ CollectResult \/ CollectFailure
    \/ Stitch \/ Union \/ RenameSystemModel

SpecInfer == InitInfer /\ [][NextInfer]_vars

\* ------------------------------------------------- determinization (SpecDet)
\* States "0" .. str(MaxDetStates - 1).
DetStates == {Atom(i) : i \in 0..(MaxDetStates - 1)}

DetWords == {<<"a", None>>, <<"a", GuardEq1>>}

\* Transition dicts of the NFAs determinized: at most MaxTransitions keys in
\* every insertion order, every image a non-empty set of states.
DetTransitionDicts ==
    {d \in UNION {[1..n -> [src : DetStates, word : DetWords,
                            dst : SUBSET DetStates \ {{}}]] : n \in 0..MaxTransitions} :
        KeysDistinct(d)}

\* NFA(component, ext_nfa) for the enumerated ext_nfa dicts.
DetNFAs ==
    {MkNFA({d[i].word : i \in 1..Len(d)}, DetStates, Atom(0), F, d) :
        d \in DetTransitionDicts, F \in SUBSET DetStates}

\* Traces of entries with tid "a" and values ['1'] or ['2'].
DetTraces ==
    UNION {[1..n -> [tid : {"a"}, values : {<< <<"1">> >>, << <<"2">> >>}]] :
              n \in 0..MaxTraceLen}

InitDet ==
    /\ IdleAcc /\ IdleOps /\ IdleSlice /\ IdlePipe /\ IdleProj
    /\ det_nfa \in DetNFAs
    /\ det_call = NoDet
    /\ det_check = NoDetCheck
    /\ det_loop = NoLoop

\* dfa = copy.deepcopy(N).standard_determinize()
DetStandard ==
    /\ det_call.op = "none"
    /\ \E alphabet_list \in IterationOrders(det_nfa.alphabet) :
           det_call' = [NoDet EXCEPT !.op = "standard", !.self = det_nfa,
                           !.dfa = standard_determinize(det_nfa, alphabet_list)]
    /\ UNCHANGED <<det_nfa, det_check, det_loop, accVars, opsVars, sliceVars, pipeVars, projVars>>

\* dfa = copy.deepcopy(N).heuristic_determinize()
DetHeuristic ==
    /\ det_call.op = "none"
    /\ \E r \in {heuristic_determinize(det_nfa)} :
           det_call' = [NoDet EXCEPT !.op = "heuristic", !.raised = r.raised,
                           !.self = r.self, !.dfa = r.dfa, !.merges = r.merges]
    /\ UNCHANGED <<det_nfa, det_check, det_loop, accVars, opsVars, sliceVars, pipeVars, projVars>>

\* dfa = copy.deepcopy(N).hybrid_determinize(k), next to what the two other
\* strategies return on copies of N in the same process.
DetHybrid ==
    /\ det_call.op = "none"
    /\ \E k \in 0..MaxMergeLimit :
       \E alphabet_list \in IterationOrders(det_nfa.alphabet) :
       \E r \in {hybrid_determinize(det_nfa, k, alphabet_list)} :
           det_call' = [NoDet EXCEPT !.op = "hybrid", !.k = k, !.raised = r.raised,
                           !.self = r.self, !.dfa = r.dfa,
                           !.merges = r.merges, !.pops = r.pops,
                           !.excluding = r.excluding,
                           !.heuristic = heuristic_determinize(det_nfa).dfa,
                           !.standard = standard_determinize(det_nfa, alphabet_list)]
    /\ UNCHANGED <<det_nfa, det_check, det_loop, accVars, opsVars, sliceVars, pipeVars, projVars>>

\* N.nfa_check_acceptance(t) and dfa.dfa_check_acceptance(t) for one trace
DetCheckAcceptance ==
    /\ det_call.op /= "none"
    /\ ~det_call.raised
    /\ ~det_check.made
    /\ \E t \in DetTraces :
           det_check' = [made |-> TRUE, trace |-> t,
                         nfa_accepted |-> nfa_check_acceptance(det_nfa, t),
                         dfa_accepted |-> dfa_check_acceptance(det_call.dfa, t)]
    /\ UNCHANGED <<det_nfa, det_call, det_loop, accVars, opsVars, sliceVars, pipeVars, projVars>>

NextDet == DetStandard \/ DetHeuristic \/ DetHybrid \/ DetCheckAcceptance

SpecDet == InitDet /\ [][NextDet]_vars

\* ------------------------------------------- the merge loops (SpecDetLoop)
\* The NFAs the loops are run on: neither loop reads accepting_states, so one
\* choice of it is taken.
InitDetLoop ==
    /\ IdleAcc /\ IdleOps /\ IdleSlice /\ IdlePipe /\ IdleProj
    /\ det_nfa \in {n \in DetNFAs : n.accepting_states = {}}
    /\ det_call = NoDet
    /\ det_check = NoDetCheck
    /\ det_loop = NoLoop

\* heuristic_determinize is entered on a copy of N.
LoopStartHeuristic ==
    /\ det_loop.op = "none"
    /\ det_loop' = [NoLoop EXCEPT !.op = "heuristic", !.nfa = det_nfa]
    /\ UNCHANGED <<det_nfa, det_call, det_check, accVars, opsVars, sliceVars, pipeVars, projVars>>

\* One iteration of the while loop of heuristic_determinize.
LoopHeuristicIterate ==
    /\ det_loop.op = "heuristic"
    /\ ~det_loop.done
    /\ \E r \in {HeuristicIterate([raised |-> FALSE, done |-> FALSE, nfa |-> det_loop.nfa,
                                    merges |-> det_loop.merges],
                                   find_non_deterministic_states(det_loop.nfa))} :
           det_loop' = [det_loop EXCEPT !.raised = r.raised, !.done = r.done,
                                        !.nfa = r.nfa, !.merges = r.merges]
    /\ UNCHANGED <<det_nfa, det_call, det_check, accVars, opsVars, sliceVars, pipeVars, projVars>>

\* hybrid_determinize(k), k >= 1, is entered on a copy of N.
LoopStartHybrid ==
    /\ det_loop.op = "none"
    /\ \E k \in 1..MaxMergeLimit :
           det_loop' = [NoLoop EXCEPT !.op = "hybrid", !.k = k, !.nfa = det_nfa,
                                      !.st = HybridStart(det_nfa)]
    /\ UNCHANGED <<det_nfa, det_call, det_check, accVars, opsVars, sliceVars, pipeVars, projVars>>

\* hybrid_determinize, lines 481-485: the test of the while loop and, when
\* working_set is not empty, the next state taken from it; i is the number of
\* the word the for loop is at, 0 outside the for loop.
LoopHybridIterate ==
    /\ det_loop.op = "hybrid"
    /\ ~det_loop.done
    /\ det_loop.i = 0
    /\ IF det_loop.st.working_set = <<>>
       THEN det_loop' = [det_loop EXCEPT !.done = TRUE]
       ELSE det_loop' = [det_loop EXCEPT
                !.curr = Head(det_loop.st.working_set),
                !.i = IF det_nfa.alphabet = {} THEN 0 ELSE 1,
                !.st = [det_loop.st EXCEPT !.working_set = Tail(@),
                                           !.visited = @ \cup {Head(det_loop.st.working_set)},
                                           !.pops = @ + 1]]
    /\ UNCHANGED <<det_nfa, det_call, det_check, accVars, opsVars, sliceVars, pipeVars, projVars>>

\* hybrid_determinize, lines 485-517: one iteration of the for loop over the
\* words, for the state curr.
LoopHybridWord ==
    /\ det_loop.op = "hybrid"
    /\ ~det_loop.done
    /\ det_loop.i > 0
    /\ \E st \in {HybridWords(det_loop.st, det_loop.k, det_loop.curr,
                                <<natsorted_words(det_nfa.alphabet)[det_loop.i]>>, 1)} :
            det_loop' = [det_loop EXCEPT
                !.st = st, !.nfa = st.nfa, !.merges = st.merges,
                !.i = IF det_loop.i = Cardinality(det_nfa.alphabet) THEN 0 ELSE det_loop.i + 1]
    /\ UNCHANGED <<det_nfa, det_call, det_check, accVars, opsVars, sliceVars, pipeVars, projVars>>

NextDetLoop ==
    \/ LoopStartHeuristic \/ LoopHeuristicIterate
    \/ LoopStartHybrid \/ LoopHybridIterate \/ LoopHybridWord

\* The process runs until the loop ends: no iteration waits forever. A step
\* is enabled exactly when the loop has not ended, so this is weak fairness
\* of the step, WF_vars(NextDetLoop), written without ENABLED.
LoopFairness == ([]<>det_loop.done) \/ ([]<><<NextDetLoop>>_vars)

SpecDetLoop == InitDetLoop /\ [][NextDetLoop]_vars /\ LoopFairness

\* ------------------------------- find_non_deterministic_states (SpecFind)
\* Transition dicts as an ext_nfa can hold them: at most MaxTransitions keys in
\* every insertion order, every image any set of states, the empty one included.
FindTransitionDicts ==
    {d \in UNION {[1..n -> [src : DetStates, word : {<<"a", None>>},
                            dst : SUBSET DetStates]] : n \in 0..MaxTransitions} :
        KeysDistinct(d)}

\* NFA(component, ext_nfa) for the enumerated ext_nfa dicts.
FindNFAs ==
    {MkNFA({d[i].word : i \in 1..Len(d)}, DetStates, Atom(0), {}, d) :
        d \in FindTransitionDicts}

\* The merge counts passed: none, or one count per state.
FindMergeCounts == {<<>>} \cup [DetStates -> 0..MaxMergeLimit]

NoFind == [op |-> "none", merge_count_per_state |-> <<>>, per_state_merge_limit |-> 0,
           kind |-> "none", states |-> {}]

InitFind ==
    /\ IdleAcc /\ IdleOps /\ IdleSlice /\ IdlePipe /\ IdleProj
    /\ det_nfa \in FindNFAs
    /\ det_call = NoFind
    /\ det_check = NoDetCheck
    /\ det_loop = NoLoop

\* N.find_non_deterministic_states() without arguments
CallFind ==
    /\ det_call.op = "none"
    /\ \E r \in {find_non_deterministic_states_excluding(det_nfa, <<>>, 0)} :
           det_call' = [NoFind EXCEPT !.op = "find_non_deterministic_states",
                                      !.kind = r.kind, !.states = r.states]
    /\ UNCHANGED <<det_nfa, det_check, det_loop, accVars, opsVars, sliceVars, pipeVars, projVars>>

\* N.find_non_deterministic_states(merge_count_per_state, per_state_merge_limit)
CallFindExcluding ==
    /\ det_call.op = "none"
    /\ \E merge_count_per_state \in FindMergeCounts :
       \E per_state_merge_limit \in 0..MaxMergeLimit :
       \E r \in {find_non_deterministic_states_excluding(det_nfa, merge_count_per_state,
                                                         per_state_merge_limit)} :
           det_call' = [op |-> "find_non_deterministic_states",
                        merge_count_per_state |-> merge_count_per_state,
                        per_state_merge_limit |-> per_state_merge_limit,
                        kind |-> r.kind, states |-> r.states]
    /\ UNCHANGED <<det_nfa, det_check, det_loop, accVars, opsVars, sliceVars, pipeVars, projVars>>

NextFind == CallFind \/ CallFindExcluding

SpecFind == InitFind /\ [][NextFind]_vars

\* --------------------------------------------- remove_end_marker (SpecEndMarker)
\* Transition dicts of a decoded learner automaton: between one and
\* MaxTransitions keys, on "a" or on the end marker.
EndMarkerDicts ==
    {d \in UNION {[1..n -> [src : DetStates, word : {<<"a", None>>, <<END_MARKER, None>>},
                            dst : SUBSET DetStates \ {{}}]] : n \in 1..MaxTransitions} :
        KeysDistinct(d)}

\* The automata MINT.run returns: built from traces that each end with the
\* end marker, so there is a transition and every state is reachable from
\* the initial state.
EndMarkerNFAs ==
    {m \in {MkNFA({d[i].word : i \in 1..Len(d)},
                   {Atom(0)} \cup {d[i].src : i \in 1..Len(d)}
                             \cup UNION {d[i].dst : i \in 1..Len(d)},
                   Atom(0), {}, d) : d \in EndMarkerDicts} :
        AllReachable(m)}

NoEndMarkerCall == [op |-> "none", raised |-> FALSE, new_ext_nfa |-> NoModel]

InitEndMarker ==
    /\ IdleAcc /\ IdleOps /\ IdleSlice /\ IdlePipe /\ IdleProj
    /\ det_nfa \in EndMarkerNFAs
    /\ det_call = NoEndMarkerCall
    /\ det_check = NoDetCheck
    /\ det_loop = NoLoop

\* ext_nfa = remove_end_marker(ext_nfa)
CallRemoveEndMarker ==
    /\ det_call.op = "none"
    /\ \E r \in {remove_end_marker(det_nfa)} :
           det_call' = [op |-> "remove_end_marker", raised |-> r.raised,
                        new_ext_nfa |-> IF r.raised THEN NoModel ELSE r.new_ext_nfa]
    /\ UNCHANGED <<det_nfa, det_check, det_loop, accVars, opsVars, sliceVars, pipeVars, projVars>>

SpecEndMarker == InitEndMarker /\ [][CallRemoveEndMarker]_vars

\* ---------------------------------------------------- postprocess (SpecPost)
MaxPostCalls == 2

\* 'standard', 'heuristic' and 'hybrid-k'
DetTechniques == {<<"standard">>, <<"heuristic">>} \cup {<<"hybrid", k>> : k \in 0..MaxMergeLimit}

\* The system models postprocess is called on.
PostNFAs == {n \in DetNFAs : n.accepting_states = {Atom(1)}}

\* det_call lists the postprocess calls made on det_nfa so far.
InitPost ==
    /\ IdleAcc /\ IdleOps /\ IdleSlice /\ IdlePipe /\ IdleProj
    /\ det_nfa \in PostNFAs
    /\ det_call = <<>>
    /\ det_check = NoDetCheck
    /\ det_loop = NoLoop

\* dfa_sys, _ = PRINS.postprocess(m_sys, determinize_technique=det_tech); the
\* heuristic strategy has no time limit.
Postprocess ==
    /\ Len(det_call) < MaxPostCalls
    /\ \E determinize_technique \in DetTechniques :
       \E alphabet_list \in IterationOrders(det_nfa.alphabet) :
       \E timed_out \in IF determinize_technique[1] = "heuristic" THEN {FALSE} ELSE BOOLEAN :
       \E r \in {postprocess(det_nfa, determinize_technique, alphabet_list, timed_out)} :
           /\ det_nfa' = r.m_sys
           /\ det_call' = Append(det_call,
                   [determinize_technique |-> determinize_technique,
                    m_sys |-> det_nfa, raised |-> r.raised, dfa_sys |-> r.dfa_sys])
    /\ UNCHANGED <<det_check, det_loop, accVars, opsVars, sliceVars, pipeVars, projVars>>

SpecPost == InitPost /\ [][Postprocess]_vars

\* ------------------------------------------------------- projection (SpecProj)
ProjComponents == {"comp1", "comp2", "comp3"}

\* Logs of at most MaxProjLen entries; ts is the entry's place in its log.
ProjLogs ==
    UNION {{[i \in 1..n |-> [ts |-> i, component |-> cs[i], tid |-> "E1", values |-> <<>>]] :
               cs \in [1..n -> ProjComponents]} : n \in 0..MaxProjLen}

\* PRINS(system, logs, output_dir) with logs an l_vectors dict
InitProj ==
    /\ IdleAcc /\ IdleOps /\ IdleSlice /\ IdlePipe /\ IdleDet
    /\ proj_logs \in UNION {[1..n -> ProjLogs] : n \in 1..MaxExecutions}
    /\ proj_call = NoProj

\* instance.project()
CallProject ==
    /\ proj_call.op = "none"
    /\ proj_call' = [NoProj EXCEPT !.op = "project",
                        !.component_logs = project(ComponentsOf(proj_logs), proj_logs)]
    /\ UNCHANGED <<proj_logs, accVars, opsVars, sliceVars, pipeVars, detVars>>

\* PRINS.partition_log_by_component(l_vectors[log_id])
CallPartition ==
    /\ proj_call.op = "none"
    /\ \E log_id \in DOMAIN proj_logs :
           proj_call' = [NoProj EXCEPT !.op = "partition", !.l_vector = proj_logs[log_id],
                            !.partitioned_log = partition_log_by_component(proj_logs[log_id])]
    /\ UNCHANGED <<proj_logs, accVars, opsVars, sliceVars, pipeVars, detVars>>

NextProj == CallProject \/ CallPartition

SpecProj == InitProj /\ [][NextProj]_vars

\* -------------------------------------------------------------- claim C1
\* C1: once the pipeline has built the system model, every training trace
\* checked against it is accepted.
C1_TrainingTracesAccepted ==
    phase = "done" => checked \subseteq accepted

\* ------------------------------------------------------------ claims C2, C3
\* Transition i of m leaves q with the entry's tid.
TidMatches(m, q, e, i) ==
    m.transitions[i].src = q /\ m.transitions[i].word[1] = e.tid

\* ... and its guard is absent or true under the entry's values.
GuardedMatch(m, q, e, i) ==
    /\ TidMatches(m, q, e, i)
    /\ \/ m.transitions[i].word[2] = None
       \/ evaluate(m.transitions[i].word[2], e.values)

\* There is a run q0 .. qn of the NFA m over t, every step by an enabled
\* transition with the next state in its image, ending in F.
NfaRunExists(m, t) ==
    \E run \in [1..(Len(t) + 1) -> m.states] :
        /\ run[1] = m.initial_state
        /\ run[Len(t) + 1] \in m.accepting_states
        /\ \A j \in 1..Len(t) : \E i \in 1..Len(m.transitions) :
              GuardedMatch(m, run[j], t[j], i) /\ run[j + 1] \in m.transitions[i].dst

\* C2: nfa_check_acceptance(t) is true iff the NFA has a run over t that
\* takes, at every entry, some transition whose tid matches and whose guard
\* is absent or true, and that ends in an accepting state.
C2_AcceptsIffRunExists ==
    chk_done = "nfa" => (nfa_accepted <=> NfaRunExists(chk_nfa, chk_trace))

\* A run of the DFA m over t whose every step is by a guarded match, ending in F.
DfaGuardedRunExists(m, t) ==
    \E run \in [1..(Len(t) + 1) -> m.states] :
        /\ run[1] = m.initial_state
        /\ run[Len(t) + 1] \in m.accepting_states
        /\ \A j \in 1..Len(t) : \E i \in 1..Len(m.transitions) :
              GuardedMatch(m, run[j], t[j], i) /\ run[j + 1] = m.transitions[i].dst

\* The same, where a state that no guarded match leaves may be left by any
\* transition with the entry's tid (the ignore_guard retry).
DfaFallbackRunExists(m, t) ==
    \E run \in [1..(Len(t) + 1) -> m.states] :
        /\ run[1] = m.initial_state
        /\ run[Len(t) + 1] \in m.accepting_states
        /\ \A j \in 1..Len(t) : \E i \in 1..Len(m.transitions) :
              /\ run[j + 1] = m.transitions[i].dst
              /\ \/ GuardedMatch(m, run[j], t[j], i)
                 \/ /\ TidMatches(m, run[j], t[j], i)
                    /\ \A k \in 1..Len(m.transitions) : ~GuardedMatch(m, run[j], t[j], k)

\* C3 as stated: a single-entry trace that no guarded match leaves q0 on is
\* rejected, and an accepted trace has a run of guarded matches ending in F.
C3_RejectsWithoutGuardedMatch ==
    chk_done = "dfa" =>
        /\ (Len(chk_trace) = 1 /\ \A i \in 1..Len(chk_dfa.transitions) :
                ~GuardedMatch(chk_dfa, chk_dfa.initial_state, chk_trace[1], i))
            => ~dfa_accepted
        /\ dfa_accepted => DfaGuardedRunExists(chk_dfa, chk_trace)

\* C3 amended: dfa_check_acceptance rejects every single-entry trace whose tid
\* no transition leaving q0 carries (whatever the guard); an accepted trace
\* has a run ending in F whose every step is by a transition with the entry's
\* tid, its guard absent or true or, when no such transition leaves the
\* state, any guard (the ignore_guard retry).
C3_RejectsWithoutTidMatch ==
    chk_done = "dfa" =>
        /\ (Len(chk_trace) = 1 /\ \A i \in 1..Len(chk_dfa.transitions) :
                ~TidMatches(chk_dfa, chk_dfa.initial_state, chk_trace[1], i))
            => ~dfa_accepted
        /\ dfa_accepted => DfaFallbackRunExists(chk_dfa, chk_trace)

\* C3's case: a trace whose last step has the tid but a false guard is accepted.
C3_Witness ==
    /\ chk_done = "dfa"
    /\ dfa_accepted
    /\ Len(chk_trace) = MaxTraceLen
    /\ ~DfaGuardedRunExists(chk_dfa, chk_trace)

\* ------------------------------------------------------ claims C4 .. C8
\* Every name in the automaton is a state, every word is in the alphabet, and
\* the transition dict has no key twice.
WellFormed(m) ==
    /\ m.initial_state \in m.states
    /\ m.accepting_states \subseteq m.states
    /\ \A x \in Items(m.transitions) :
        x.src \in m.states /\ x.dst \subseteq m.states /\ x.word \in m.alphabet
    /\ KeysDistinct(m.transitions)

\* f maps initial state, accepting set and every transition of m onto n.
MapsOnto(f, m, n) ==
    /\ n.initial_state = f[m.initial_state]
    /\ n.accepting_states = {f[s] : s \in m.accepting_states}
    /\ Items(n.transitions) =
         {[src |-> f[x.src], word |-> x.word, dst |-> {f[s] : s \in x.dst}] :
            x \in Items(m.transitions)}

Bijections(S, T) ==
    {f \in [S -> T] : /\ \A a, b \in S : f[a] = f[b] => a = b
                      /\ {f[a] : a \in S} = T}

Isomorphic(m, n) ==
    /\ Cardinality(m.states) = Cardinality(n.states)
    /\ m.alphabet = n.alphabet
    /\ \E f \in Bijections(m.states, n.states) : MapsOnto(f, m, n)

\* C4: rename_states(p) on a well-formed NFA keeps |Q|, the alphabet, |F| and
\* the number of transition keys, makes the states exactly str(p) ..
\* str(p+|Q|-1) numbered in natural-sort order of the old names, and maps q0,
\* F and both sides of every transition through that one bijection.
C4_RenamePreservesStructure ==
    (call.op = "rename_states" /\ WellFormed(obj_before)) =>
        LET m == obj_before
            n == obj
        IN  /\ Cardinality(n.states) = Cardinality(m.states)
            /\ n.alphabet = m.alphabet
            /\ Cardinality(n.accepting_states) = Cardinality(m.accepting_states)
            /\ Len(n.transitions) = Len(m.transitions)
            /\ KeysDistinct(n.transitions)
            /\ n.states = {Atom(i + call.padding) : i \in 0..(Cardinality(m.states) - 1)}
            /\ \E f \in Bijections(m.states, n.states) :
                /\ \A a, b \in m.states : NameLess(a, b) => f[a][1] < f[b][1]
                /\ MapsOnto(f, m, n)

\* A rename with a positive padding of an NFA that has a merged state, several
\* states and a transition.
C4_Witness ==
    /\ call.op = "rename_states"
    /\ WellFormed(obj_before)
    /\ call.padding > 0
    /\ Cardinality(obj_before.states) >= 3
    /\ \E s \in obj_before.states : Len(s) >= 2
    /\ Len(obj_before.transitions) >= 2
    /\ obj.states /= obj_before.states

\* The name s has after the members of S became q_m.
Merged(s, S, q_m) == IF s \in S THEN q_m ELSE s

\* The union of the images of (q, a) in the transition dict d.
Image(d, q, a) == UNION {x.dst : x \in {y \in Items(d) : y.src = q /\ y.word = a}}

\* C5: after merge_states(S), |S| >= 2, the NFA has |S|-1 states fewer, every
\* transition that had a member of S as source or in its image has q_m there
\* instead, and no transition mentions a member of S.
C5_MergeRemovesMembers ==
    merge_call.made =>
        LET m == merge_call.pre
            n == merge_call.post
            S == merge_call.ms
            q_m == merge_call.s_m
        IN  /\ Cardinality(n.states) = Cardinality(m.states) - (Cardinality(S) - 1)
            /\ \A x \in Items(m.transitions) :
                /\ x.src \in S => \E y \in Items(n.transitions) :
                                    y.src = q_m /\ y.word = x.word
                /\ x.dst \cap S /= {} => \E y \in Items(n.transitions) :
                                    /\ y.src = Merged(x.src, S, q_m)
                                    /\ y.word = x.word
                                    /\ q_m \in y.dst
            /\ \A y \in Items(n.transitions) : y.src \notin S /\ y.dst \cap S = {}

\* C6: merge_states(S) returns the comma-join of the naturally sorted members;
\* q_m is initial iff a member was, accepting iff a member was, the alphabet
\* is unchanged, and the image of (q_m, a) is the union of the images of
\* (s, a), s in S, with the members replaced by q_m.
C6_MergedStateIsUnion ==
    merge_call.made =>
        LET m == merge_call.pre
            n == merge_call.post
            S == merge_call.ms
            q_m == merge_call.s_m
        IN  /\ q_m = CommaJoin(natsorted(S))
            /\ (n.initial_state = q_m) <=> (m.initial_state \in S)
            /\ (q_m \in n.accepting_states) <=> (m.accepting_states \cap S /= {})
            /\ n.alphabet = m.alphabet
            /\ \A a \in m.alphabet :
                Image(n.transitions, q_m, a) =
                    {Merged(s, S, q_m) :
                        s \in UNION {Image(m.transitions, r, a) : r \in S}}

\* C7: after self.append(other), self with one accepting state f: other's
\* states are disjoint from self's, the result has |Q_self| + |Q_other| - 1
\* states, f and other.q0 are one state carrying the transitions of both, the
\* accepting set is other's, the alphabet is the union, and the initial state
\* is self's (or the fused state if f was initial).
C7_AppendPostconditions ==
    (call.op = "append" /\ ~call.raised) =>
        LET A == obj_before
            B == check_and_remove_redundant_states(A, call.other).nfa
            R == obj
            f == CHOOSE s \in A.accepting_states : TRUE
            S == {f, B.initial_state}
            fused == CommaJoin(natsorted(S))
        IN  /\ B.states \cap A.states = {}
            /\ call.other_after.states = B.states
            /\ Cardinality(R.states) =
                  Cardinality(A.states) + Cardinality(call.other.states) - 1
            /\ fused \in R.states
            /\ \A x \in Items(A.transitions) \cup Items(B.transitions) :
                \E y \in Items(R.transitions) :
                    /\ y.src = Merged(x.src, S, fused)
                    /\ y.word = x.word
                    /\ {Merged(s, S, fused) : s \in x.dst} \subseteq y.dst
            /\ R.accepting_states = {Merged(s, S, fused) : s \in B.accepting_states}
            /\ (fused \in R.accepting_states) <=>
                  (call.other.initial_state \in call.other.accepting_states)
            /\ R.alphabet = A.alphabet \cup call.other.alphabet
            /\ R.initial_state = Merged(A.initial_state, S, fused)

\* C8: for A and B with one accepting state each and any C,
\* (A.append(B)).append(C) and A.append(B.append(C)) are isomorphic.
C8_AppendAssociative ==
    (call.op = "append_both_ways" /\ ~call.raised) => Isomorphic(call.left, call.right)

\* -------------------------------------------------------------- claim C11
\* The map from S to T that keeps the natural-sort rank.
SameRank(S, T) == [s \in S |-> natsorted(T)[IndexOf(natsorted(S), s) + 1]]

RECURSIVE SumStates(_, _)
\* |Q_1| + .. + |Q_n| from model k on.
SumStates(models, k) ==
    IF k > Len(models) THEN 0
    ELSE Cardinality(models[k].states) + SumStates(models, k + 1)

\* C11: union_nfa_models on n >= 2 NFAs renames them into pairwise disjoint
\* ranges (each renamed input isomorphic to the input) and returns an NFA whose
\* states are the renamed states with the n initial states replaced by one
\* merged initial state (|Q| = sum |Q_i| - (n-1)), whose alphabet and
\* transitions are the unions of the inputs' (none lost, none invented), whose
\* accepting set is the union of the inputs', the merged initial state
\* accepting iff some input's initial state is.
C11_UnionIsComponentwise ==
    (call.op = "union_nfa_models" /\ ~call.raised) =>
        LET Ms == call.models
            Rs == call.models_after
            R == obj
            n == Len(Ms)
            S == {Rs[k].initial_state : k \in 1..n}
            q_m == CommaJoin(natsorted(S))
        IN  /\ \A j, k \in 1..n : j /= k => Rs[j].states \cap Rs[k].states = {}
            /\ \A k \in 1..n :
                /\ Cardinality(Rs[k].states) = Cardinality(Ms[k].states)
                /\ Rs[k].alphabet = Ms[k].alphabet
                /\ MapsOnto(SameRank(Ms[k].states, Rs[k].states), Ms[k], Rs[k])
            /\ R.states = {Merged(s, S, q_m) : s \in UNION {Rs[k].states : k \in 1..n}}
            /\ Cardinality(R.states) = SumStates(Ms, 1) - (n - 1)
            /\ R.initial_state = q_m
            /\ R.alphabet = UNION {Ms[k].alphabet : k \in 1..n}
            /\ \A k \in 1..n : \A x \in Items(Rs[k].transitions) :
                \E y \in Items(R.transitions) :
                    /\ y.src = Merged(x.src, S, q_m)
                    /\ y.word = x.word
                    /\ {Merged(s, S, q_m) : s \in x.dst} \subseteq y.dst
            /\ \A y \in Items(R.transitions) : \A d \in y.dst :
                \E k \in 1..n : \E x \in Items(Rs[k].transitions) :
                    /\ y.src = Merged(x.src, S, q_m)
                    /\ y.word = x.word
                    /\ d \in {Merged(s, S, q_m) : s \in x.dst}
            /\ R.accepting_states =
                  {Merged(s, S, q_m) : s \in UNION {Rs[k].accepting_states : k \in 1..n}}
            /\ (q_m \in R.accepting_states) <=>
                  (\E k \in 1..n : Ms[k].initial_state \in Ms[k].accepting_states)

\* A union of MaxModels NFAs with transitions, one of them with a merged state.
C11_Witness ==
    /\ call.op = "union_nfa_models"
    /\ ~call.raised
    /\ Len(call.models) = MaxModels
    /\ \E s \in call.models[1].states : Len(s) >= 2
    /\ \A k \in 1..Len(call.models) : Len(call.models[k].transitions) >= 1
    /\ Len(obj.transitions) >= MaxModels

\* -------------------------------------------------------------- claim C12
\* C12: for every NFA N and trace t, dfa_check_acceptance(t) on
\* standard_determinize(N) equals nfa_check_acceptance(t) on N.
C12_StandardPreservesLanguage ==
    (det_call.op = "standard" /\ det_check.made) =>
        (det_check.dfa_accepted <=> det_check.nfa_accepted)

\* -------------------------------------------------------------- claim C13
\* m is a DFA whose states are "0" .. str(|Q|-1): no key twice, every key
\* with one destination, a state.
IsNumberedDFA(m) ==
    /\ m.states = {Atom(i) : i \in 0..(Cardinality(m.states) - 1)}
    /\ m.initial_state \in m.states
    /\ m.accepting_states \subseteq m.states
    /\ KeysDistinct(m.transitions)
    /\ \A x \in Items(m.transitions) : x.src \in m.states /\ x.dst \in m.states

\* C13: heuristic_determinize returns a DFA (one destination per key, states
\* numbered 0 .. |Q|-1) that accepts every trace N accepts.
C13_HeuristicOverApproximates ==
    (det_call.op = "heuristic" /\ ~det_call.raised) =>
        /\ IsNumberedDFA(det_call.dfa)
        /\ det_check.made => (det_check.nfa_accepted => det_check.dfa_accepted)

\* -------------------------------------------------------------- claim C14
\* Some image of the NFA holds more than one state.
HasNonDeterministicImage(nfa) ==
    \E i \in 1..Len(nfa.transitions) : Cardinality(nfa.transitions[i].dst) > 1

\* C14: the merge loops end. Every iteration of heuristic_determinize that
\* merges leaves fewer states than it found; the loop ends, without an error,
\* after at most |Q| - 1 merges and leaves no image with more than one state;
\* and the loop of hybrid_determinize(k >= 1) ends with its working set empty.
C14_MergeLoopsTerminate ==
    /\ [][(det_loop.op = "heuristic" /\ det_loop'.merges > det_loop.merges) =>
              Cardinality(det_loop'.nfa.states) < Cardinality(det_loop.nfa.states)]_vars
    /\ []((det_loop.op = "heuristic" /\ det_loop.done) =>
              /\ ~det_loop.raised
              /\ det_loop.merges <= Cardinality(det_nfa.states) - 1
              /\ ~HasNonDeterministicImage(det_loop.nfa))
    /\ []((det_loop.op = "hybrid" /\ det_loop.done) => det_loop.st.working_set = <<>>)
    /\ ((det_loop.op /= "none") ~> det_loop.done)

\* The heuristic loop has ended after |Q| - 1 merges of an NFA that had a
\* non-deterministic image.
C14_Witness ==
    /\ det_loop.op = "heuristic"
    /\ det_loop.done
    /\ HasNonDeterministicImage(det_nfa)
    /\ det_loop.merges = Cardinality(det_nfa.states) - 1

\* -------------------------------------------------------------- claim C15
\* The transitions of a DFA as a set of (source, word, destination).
DfaTransitionSet(dfa) == {dfa.transitions[i] : i \in 1..Len(dfa.transitions)}

\* The two DFAs are equal up to a renaming of their states.
EqualUpToRenaming(d1, d2) ==
    /\ Cardinality(d1.states) = Cardinality(d2.states)
    /\ d1.alphabet = d2.alphabet
    /\ \E f \in [d1.states -> d2.states] :
           /\ \A p, q \in d1.states : f[p] = f[q] => p = q
           /\ f[d1.initial_state] = d2.initial_state
           /\ {f[q] : q \in d1.accepting_states} = d2.accepting_states
           /\ {[src |-> f[t.src], word |-> t.word, dst |-> f[t.dst]] :
                   t \in DfaTransitionSet(d1)} = DfaTransitionSet(d2)

SubLog(l_vector, c) == SelectSeq(l_vector, LAMBDA e : e.component = c)

\* The places (c, j) at which the entry stands in the sub-logs of execution x.
PlacesOf(component_logs, x, e) ==
    {cj \in (DOMAIN component_logs) \X (1..MaxProjLen) :
        /\ x \in DOMAIN component_logs[cj[1]]
        /\ cj[2] <= Len(component_logs[cj[1]][x])
        /\ component_logs[cj[1]][x][cj[2]] = e}

\* C16: project() has one key per component of the corpus; under component
\* c, execution x stands for the entries of trace x with component c in their
\* order, and has no key when trace x has no such entry; every entry of the
\* corpus stands at exactly one place of the sub-logs of its execution.
C16_ProjectPartitionsCorpus ==
    proj_call.op = "project" =>
        /\ DOMAIN proj_call.component_logs = ComponentsOf(proj_logs)
        /\ \A c \in DOMAIN proj_call.component_logs :
               /\ DOMAIN proj_call.component_logs[c] =
                      {x \in DOMAIN proj_logs : SubLog(proj_logs[x], c) /= <<>>}
               /\ \A x \in DOMAIN proj_call.component_logs[c] :
                      proj_call.component_logs[c][x] = SubLog(proj_logs[x], c)
        /\ \A x \in DOMAIN proj_logs : \A i \in 1..Len(proj_logs[x]) :
               Cardinality(PlacesOf(proj_call.component_logs, x, proj_logs[x][i])) = 1

\* project() was called on a corpus in which one trace goes from a component
\* to another and back, and another trace lacks a component of the corpus.
C16_Witness ==
    /\ proj_call.op = "project"
    /\ \E x \in DOMAIN proj_logs :
           /\ Len(proj_logs[x]) = 3
           /\ proj_logs[x][1].component = proj_logs[x][3].component
           /\ proj_logs[x][1].component /= proj_logs[x][2].component
           /\ Len(proj_call.component_logs[proj_logs[x][1].component][x]) = 2
    /\ \E c \in DOMAIN proj_call.component_logs :
           DOMAIN proj_call.component_logs[c] /= DOMAIN proj_logs

\* -------------------------------------------------------------- claim C17
RECURSIVE ConcatRuns(_)
\* The runs of the list, end to end.
ConcatRuns(partitioned_log) ==
    IF partitioned_log = <<>> THEN <<>>
    ELSE Head(partitioned_log).l_vector \o ConcatRuns(Tail(partitioned_log))

\* C17: partition_log_by_component(t) returns (component, run) pairs whose
\* runs, end to end, are t; every run is non-empty and all its entries have
\* the pair's component; adjacent runs have different components; and the
\* empty trace gives the empty list.
C17_PartitionIsMaximalRuns ==
    proj_call.op = "partition" =>
        LET p == proj_call.partitioned_log
        IN  /\ ConcatRuns(p) = proj_call.l_vector
            /\ \A k \in 1..Len(p) :
                   /\ p[k].l_vector /= <<>>
                   /\ \A i \in 1..Len(p[k].l_vector) :
                          p[k].l_vector[i].component = p[k].component
            /\ \A k \in 1..(Len(p) - 1) : p[k].component /= p[k + 1].component
            /\ proj_call.l_vector = <<>> => p = <<>>

\* A trace was partitioned into more than one run, one of them of two entries.
C17_Witness ==
    /\ proj_call.op = "partition"
    /\ Len(proj_call.partitioned_log) >= 2
    /\ \E k \in 1..Len(proj_call.partitioned_log) :
           Len(proj_call.partitioned_log[k].l_vector) >= 2

\* -------------------------------------------------------------- claim C18
\* q0 is a state, F is a set of states, every transition goes from a state to
\* a non-empty set of states on a word of the alphabet.
NfaWellFormed(m) ==
    /\ m.initial_state \in m.states
    /\ m.accepting_states \subseteq m.states
    /\ \A i \in 1..Len(m.transitions) :
           /\ m.transitions[i].src \in m.states
           /\ m.transitions[i].dst \subseteq m.states
           /\ m.transitions[i].dst /= {}
           /\ m.transitions[i].word \in m.alphabet

\* C18: the NFA that a sequence of rename_states, merge_states, append, slice
\* and union_nfa_models calls has built from well-formed NFAs is well-formed,
\* and so are the argument of append and the arguments of union_nfa_models as
\* the call leaves them.
C18_MutatorsKeepWellFormed ==
    /\ NfaWellFormed(obj)
    /\ (call.op = "append" /\ ~call.raised) => NfaWellFormed(call.other_after)
    /\ (call.op = "union_nfa_models" /\ ~call.raised) =>
           \A k \in 1..Len(call.models_after) : NfaWellFormed(call.models_after[k])

\* -------------------------------------------------------------- claim C19
\* Two distinct transitions leave q with the entry's tid and a guard that is
\* absent or true under the entry's values.
GuardsOverlap(m, q, e) ==
    \E i, j \in 1..Len(m.transitions) :
        i /= j /\ GuardedMatch(m, q, e, i) /\ GuardedMatch(m, q, e, j)

\* C19: when the guards of two transitions leaving the initial state overlap
\* on the first entry of the trace checked, the guarded transition taken there
\* (make_guarded_transition of the DFA, nfa_guarded_transition of the NFA)
\* does not return the destination of one of them.
C19_GuardOverlapRejected ==
    /\ (chk_done = "dfa" /\ Len(chk_trace) >= 1
            /\ GuardsOverlap(chk_dfa, chk_dfa.initial_state, chk_trace[1])) =>
           ~make_guarded_transition(chk_dfa, chk_dfa.initial_state, chk_trace[1], FALSE).found
    /\ (chk_done = "nfa" /\ Len(chk_trace) >= 1
            /\ GuardsOverlap(chk_nfa, chk_nfa.initial_state, chk_trace[1])) =>
           ~nfa_guarded_transition(chk_nfa, chk_nfa.initial_state, chk_trace[1], FALSE).found

\* -------------------------------------------------------------- claim C20
\* No transition leaves q with the entry's tid.
NoTidMatch(m, q, e) == \A k \in 1..Len(m.transitions) : ~TidMatches(m, q, e, k)

\* No transition leaves q with the entry's tid and a guard absent or true.
NoGuardedMatch(m, q, e) == \A k \in 1..Len(m.transitions) : ~GuardedMatch(m, q, e, k)

\* C20: in a slice of a model M without non-deterministic state, the entries
\* are taken in order, each by one guarded attempt followed by at most one
\* attempt with ignore_guard=True, made exactly when the guarded attempt found
\* no transition; the call raises iff at some entry the state reached has no
\* outgoing transition with the entry's tid; and whenever slice raises, the
\* cursor keeps the value it had before the call and M is unchanged.
C20_SliceRetryAndRaise ==
    slice_call.made =>
        LET M == slice_call.self_before
            t == slice_call.l_vector
            calls == slice_call.calls
        IN  /\ slice_call.raised =>
                   /\ slice_call.cursor_after = slice_call.cursor
                   /\ comp_model = M
            /\ find_non_deterministic_states(M).kind = "none" =>
                   /\ Len(calls) <= Len(t)
                   /\ ~slice_call.raised => Len(calls) = Len(t)
                   /\ \A j \in 1..Len(calls) :
                          /\ calls[j].entry = j
                          /\ calls[j].tries \in {<<FALSE>>, <<FALSE, TRUE>>}
                          /\ calls[j].tries = <<FALSE, TRUE>> <=>
                                 NoGuardedMatch(M, calls[j].curr_state, t[j])
                   /\ slice_call.raised <=>
                          \E j \in 1..Len(calls) : NoTidMatch(M, calls[j].curr_state, t[j])

\* A slice that took its first entry by the retry, moved to another state and
\* raised on the second entry.
C20_Witness ==
    /\ slice_call.made
    /\ slice_call.raised
    /\ find_non_deterministic_states(slice_call.self_before).kind = "none"
    /\ Len(slice_call.calls) = 2
    /\ slice_call.calls[1].tries = <<FALSE, TRUE>>
    /\ slice_call.calls[2].curr_state /= slice_call.cursor
    /\ NoTidMatch(slice_call.self_before, slice_call.calls[2].curr_state,
                  slice_call.l_vector[2])

\* ------------------------------------------------------ claim C21
\* C21: union_nfa_models returns, for every non-empty list of well-formed
\* NFAs, a list of exactly one NFA included, without raising; the NFA returned
\* is well-formed and its initial state is the state that combines the initial
\* states of the renamed models.
C21_UnionAcceptsEveryNonEmptyList ==
    (call.op = "union_nfa_models" /\ Len(call.models) >= 1
        /\ \A k \in 1..Len(call.models) : NfaWellFormed(call.models[k]))
    => /\ ~call.raised
       /\ NfaWellFormed(obj)
       /\ obj.initial_state =
            CommaJoin(natsorted({call.models_after[k].initial_state :
                                    k \in 1..Len(call.models_after)}))

\* ------------------------------------------------------ claim C22
\* C22: find_non_deterministic_states ends in the fatal error whenever some
\* transition has an empty image, wherever that transition stands in the
\* iteration and whether or not another image is non-deterministic; when no
\* image is empty it returns None iff every image minus the excluded states
\* has at most one element.
C22_EmptyImageAlwaysFatal ==
    det_call.op = "find_non_deterministic_states" =>
        IF \E i \in 1..Len(det_nfa.transitions) : det_nfa.transitions[i].dst = {}
        THEN det_call.kind = "exit"
        ELSE det_call.kind = "none" <=>
                \A i \in 1..Len(det_nfa.transitions) :
                    Cardinality(det_nfa.transitions[i].dst \
                        ExcludingDstStates(det_call.merge_count_per_state,
                                           det_call.per_state_merge_limit)) <= 1

\* ------------------------------------------------------ claim C23
\* The largest merge count of the states of ms.
MaxCount(merge_count_per_state, ms) ==
    CHOOSE m \in {merge_count_per_state[q] : q \in ms} :
        \A q \in ms : merge_count_per_state[q] <= m

\* C23: in hybrid_determinize(k >= 1), at every point of the search every
\* state of the NFA has a merge count, which is at most k, and every state
\* whose count has reached k is excluded; a merge replaces its members by one
\* new state whose count is 1 + the largest count of the members; and no
\* excluded state is ever a member of a merge.
C23_MergeCountBounded ==
    /\ [](det_loop.op = "hybrid" =>
            /\ DOMAIN det_loop.st.merge_count_per_state = det_loop.st.nfa.states
            /\ \A q \in det_loop.st.nfa.states :
                   /\ det_loop.st.merge_count_per_state[q] <= det_loop.k
                   /\ det_loop.st.merge_count_per_state[q] >= det_loop.k
                          => q \in det_loop.st.excluding)
    /\ [][(det_loop.op = "hybrid" /\ det_loop'.merges > det_loop.merges) =>
            /\ det_loop'.merges = det_loop.merges + 1
            /\ Cardinality(det_loop.st.nfa.states \ det_loop'.st.nfa.states) > 1
            /\ (det_loop.st.nfa.states \ det_loop'.st.nfa.states)
                   \cap det_loop.st.excluding = {}
            /\ Cardinality(det_loop'.st.nfa.states \ det_loop.st.nfa.states) = 1
            /\ \A s_m \in det_loop'.st.nfa.states \ det_loop.st.nfa.states :
                   det_loop'.st.merge_count_per_state[s_m] =
                       1 + MaxCount(det_loop.st.merge_count_per_state,
                                    det_loop.st.nfa.states \ det_loop'.st.nfa.states)]_vars
    /\ [][det_loop.op = "hybrid" =>
            /\ det_loop.st.excluding \subseteq det_loop'.st.excluding
            /\ det_loop.st.excluding \subseteq det_loop'.st.nfa.states]_vars

\* A search with limit 2 in which a state of count 1 was merged again, the
\* new state has count 2 and is excluded, and the search has ended.
C23_Witness ==
    /\ det_loop.op = "hybrid"
    /\ det_loop.k = 2
    /\ det_loop.done
    /\ det_loop.merges >= 2
    /\ \E q \in det_loop.st.excluding : det_loop.st.merge_count_per_state[q] = 2

\* ------------------------------------------------------ claim C24
\* The slices of stitch_call that were taken from component c, in order.
SlicesOf(c) == SelectSeq(stitch_call.slices, LAMBDA x : x.component = c)

\* The entries of component c in the trace, in order.
ProjectionOnto(l_vector, c) == SelectSeq(l_vector, LAMBDA e : e.component = c)

RECURSIVE WalkFrom(_, _, _)
\* The state reached from q by taking, entry by entry, the first matching
\* transition of the deterministic model m (guards ignored when no guarded
\* one matches); <<>> when some entry has no transition.
WalkFrom(m, q, l_vector) ==
    IF l_vector = <<>> \/ q = <<>> THEN q
    ELSE LET guarded == nfa_guarded_transition(m, q, Head(l_vector), FALSE)
             found == IF guarded.found THEN guarded
                      ELSE nfa_guarded_transition(m, q, Head(l_vector), TRUE)
         IN  IF ~found.found THEN <<>>
             ELSE WalkFrom(m, CHOOSE r \in found.dst : TRUE, Tail(l_vector))

\* C24: within one execution the slices of a component follow one another:
\* the first starts at the component model's initial state, whatever earlier
\* executions did, each later one starts where the previous slice of the same
\* component ended, and when stitch returns the cursor of every component is
\* the state reached by walking the projection of the execution onto the
\* component through its model from the model's initial state.
C24_CursorsAdvanceAndReset ==
    stitch_call.log_id > 0 =>
        \A c \in Components :
            /\ \A j \in 1..Len(SlicesOf(c)) :
                   SlicesOf(c)[j].cursor =
                       IF j = 1 THEN inferred[c].initial_state
                       ELSE SlicesOf(c)[j - 1].cursor_after
            /\ ~stitch_call.raised =>
                   stitch_call.slice_starting_states[c] =
                       WalkFrom(inferred[c], inferred[c].initial_state,
                                ProjectionOnto(l_vectors[stitch_call.log_id], c))

\* The second execution has been stitched: its first slice of c1 starts at the
\* initial state although the first execution left the cursor of c1
\* elsewhere, and it comes back to c1 with the cursor moved.
C24_Witness ==
    /\ stitch_call.log_id = 2
    /\ ~stitch_call.raised
    /\ Len(SlicesOf("c1")) = 2
    /\ SlicesOf("c1")[2].cursor /= inferred["c1"].initial_state
    /\ stitch_call.slice_starting_states["c1"] /= SlicesOf("c1")[2].cursor
    /\ WalkFrom(inferred["c1"], inferred["c1"].initial_state,
                ProjectionOnto(l_vectors[1], "c1")) /= inferred["c1"].initial_state

C26_HeuristicKeepsImages ==
    (det_call.op = "heuristic" /\ ~det_call.raised) =>
        /\ \A i \in 1..Len(det_call.self.transitions) :
               Cardinality(det_call.self.transitions[i].dst) = 1
        /\ \E f \in [det_call.self.states -> det_call.dfa.states] :
               \A i \in 1..Len(det_call.self.transitions) :
                   \E t \in DfaTransitionSet(det_call.dfa) :
                       /\ t.src = f[det_call.self.transitions[i].src]
                       /\ t.word = det_call.self.transitions[i].word
                       /\ det_call.self.transitions[i].dst = {q \in det_call.self.states :
                                                                 f[q] = t.dst}

\* ------------------------------------------------------ claim C27
\* C27: postprocess leaves the NFA passed in as it was, for every strategy
\* and also when the determinization raises; so calls repeated on the same
\* m_sys with the same strategy return equal DFAs, and a call returns what
\* its strategy returns on the original m_sys whatever strategy was called
\* before it.
C27_PostprocessLeavesModel ==
    det_call /= <<>> =>
        /\ det_nfa = det_call[1].m_sys
        /\ \A i \in 1..Len(det_call) : det_call[i].m_sys = det_call[1].m_sys
        /\ \A i, j \in 1..Len(det_call) :
               (/\ det_call[i].determinize_technique = det_call[j].determinize_technique
                /\ ~det_call[i].raised /\ ~det_call[j].raised)
               => SameNFA(det_call[i].dfa_sys, det_call[j].dfa_sys)
        /\ \A i \in 1..Len(det_call) :
               ~det_call[i].raised =>
                   \A alphabet_list \in IterationOrders(det_call[1].m_sys.alphabet) :
                       SameNFA(det_call[i].dfa_sys,
                               DeterminizeCopy(det_call[1].m_sys,
                                               det_call[i].determinize_technique,
                                               alphabet_list).dfa)

\* Two calls on an NFA with a non-deterministic image: a heuristic one, which
\* merges states of its copy, then a standard one.
C27_Witness ==
    /\ Len(det_call) = 2
    /\ HasNonDeterministicImage(det_nfa)
    /\ det_call[1].determinize_technique = <<"heuristic">>
    /\ det_call[2].determinize_technique = <<"standard">>
    /\ ~det_call[1].raised /\ ~det_call[2].raised
    /\ Cardinality(det_call[1].dfa_sys.states) < Cardinality(det_nfa.states)

\* A call that timed out, followed by a call that returned.
C27_WitnessRaised ==
    /\ Len(det_call) = 2
    /\ det_call[1].raised
    /\ ~det_call[2].raised

\* ------------------------------------------------------ claim C28
\* The models the learner returns, by component.
LearnedModels == [c \in DOMAIN workers.futures |-> workers.futures[c].model]

RECURSIVE StitchAll(_, _, _)
\* The executions from number i on stitched one after the other with the
\* component models given; failed when a stitch raises.
StitchAll(logs, i, component_models) ==
    IF i > Len(logs) THEN [failed |-> FALSE, models |-> <<>>]
    ELSE LET first == stitch(logs[i], component_models)
             rest == StitchAll(logs, i + 1, component_models)
         IN  IF first.raised \/ rest.failed THEN [failed |-> TRUE, models |-> <<>>]
             ELSE [failed |-> FALSE, models |-> <<first.model_appended>> \o rest.models]

\* The system NFA of the corpus for the component models given: the stitched
\* executions united and renamed.
SystemModelOf(logs, component_models) ==
    rename_states(union_nfa_models(StitchAll(logs, 1, component_models).models).nfa, 0)

Canonical(q) == \A i, j \in 1..Len(q) : i < j => q[i] < q[j]

\* The atomic constituents of the identifier.
AtomsOf(q) == {q[i] : i \in 1..Len(q)}

\* C29: composite identifiers are canonical. Whenever merge_states, called
\* directly or by append and union_nfa_models, merges states whose
\* identifiers are canonical and have no constituent in common, the
\* identifier of the merged state is the comma-join of all their atomic
\* constituents in natural order, so that the order in which states were
\* merged does not show in it.
C29_CompositeNamesCanonical ==
    (/\ merge_call.made
     /\ \A q \in merge_call.ms : Canonical(q)
     /\ \A p, q \in merge_call.ms : p /= q => AtomsOf(p) \cap AtomsOf(q) = {})
    => /\ Canonical(merge_call.s_m)
       /\ AtomsOf(merge_call.s_m) = UNION {AtomsOf(q) : q \in merge_call.ms}

\* ------------------------------------------------------ claim C30
\* C30: hybrid_determinize(k) over-approximates for every k >= 0. It returns
\* a DFA that accepts every trace the NFA accepts; and the NFA that the search
\* leaves to the final standard determinization has, at every state reachable
\* from its initial state, no image with more than one state that is not
\* excluded.
C30_HybridOverApproximates ==
    (det_call.op = "hybrid" /\ ~det_call.raised) =>
        /\ IsNumberedDFA(det_call.dfa)
        /\ det_check.made => (det_check.nfa_accepted => det_check.dfa_accepted)
        /\ det_call.k >= 1 =>
               \A i \in 1..Len(det_call.self.transitions) :
                   det_call.self.transitions[i].src
                           \in ReachableFrom(det_call.self, {det_call.self.initial_state})
                       => Cardinality(det_call.self.transitions[i].dst
                                          \ det_call.excluding) <= 1

C10_SliceIsTheWalk ==
    (slice_call.made /\ ~slice_call.raised) =>
        LET M == slice_call.self_before
            t == slice_call.l_vector
            c == slice_call.cursor
            s == slice_call.sliced
            n == Len(t)
        IN  /\ s.initial_state = c
            /\ Items(s.transitions) \subseteq Items(M.transitions)
            /\ n = 0 => /\ s = MkNFA({}, {c}, c, {c}, <<>>)
                        /\ slice_call.cursor_after = c
            /\ \E path \in [1..(n + 1) -> M.states] :
               \E used \in [1..n -> 1..Len(M.transitions)] :
                /\ path[1] = c
                /\ \A j \in 1..n :
                    /\ TidMatches(M, path[j], t[j], used[j])
                    /\ M.transitions[used[j]].dst = {path[j + 1]}
                    /\ \/ GuardedMatch(M, path[j], t[j], used[j])
                       \/ \A k \in 1..Len(M.transitions) :
                              ~GuardedMatch(M, path[j], t[j], k)
                /\ s.states = {path[j] : j \in 1..(n + 1)}
                /\ s.alphabet = {M.transitions[used[j]].word : j \in 1..n}
                /\ Items(s.transitions) = {M.transitions[used[j]] : j \in 1..n}
                /\ s.accepting_states = {path[n + 1]}
                /\ slice_call.cursor_after = path[n + 1]

\* A slice over a longest trace whose first step no guarded match allows
\* (the ignore_guard retry takes it) and that visits two states.
C10_Witness ==
    /\ slice_call.made
    /\ ~slice_call.raised
    /\ Len(slice_call.l_vector) = MaxTraceLen
    /\ \A k \in 1..Len(slice_call.self_before.transitions) :
          ~GuardedMatch(slice_call.self_before, slice_call.cursor,
                        slice_call.l_vector[1], k)
    /\ Cardinality(slice_call.sliced.states) = 2

=============================================================================
